---------------------------- MODULE Spec2Model ----------------------------
(***************************************************************************)
(* A model of the gradient-tracking DataFlowSanitizer runtime (dfsan.cc,   *)
(* gradtest_macros.h) and of the single-byte optimizer built on it         *)
(* (fuzzer/dataflow/DataFlow.cpp).                                         *)
(*                                                                         *)
(* The label table, the shadow memory and the two observation logs are the *)
(* runtime's process-wide state; every exported entry point is one action. *)
(* dfsan_label is a 16-bit unsigned integer in the source; the model keeps *)
(* the same arithmetic on a narrower type of kNumLabels values, so that    *)
(* exhaustion of the label space is reachable.                             *)
(***************************************************************************)
EXTENDS Integers, Sequences, FiniteSets, TLC

(***************************************************************************)
(* Bounds of the model.                                                    *)
(***************************************************************************)
\* Number of values of dfsan_label: 1 << (sizeof(dfsan_label) * 8) in the
\* source (dfsan.cc:51), narrowed here.
kNumLabels == 5

\* Labels allocated between two flushes in the runs of Spec and SpecShadow.
MaxLabels == 2

\* Number of application bytes that have a shadow slot.
NumAddrs == 2

\* Length of the input file the driver reads into Buf.
InputLen == 2
\* The capacity of the BugTargets array (1000 in DataFlow.cpp), narrowed.
kMaxBugTargets == 3

\* Threads of the target that call the runtime concurrently, and the calls
\* each of them makes between two resets.
NumThreads == 2
MaxCalls == 3

\* Capacities of the two observation logs: 1048576 and 65535 in the source
\* (dfsan.cc:43-44), narrowed here.
BRANCH_RECORDS_SIZE == 1
FUNC_ARGS_SIZE == 1

(***************************************************************************)
(* Program constants.                                                      *)
(***************************************************************************)
ADD == 11
FADD == 12
SUB == 13
MUL == 15
UDIV == 17
SDIV == 18
FSUB == 14
FMUL == 16
FDIV == 19
UREM == 20
SREM == 21
FREM == 22
SHL == 23
LSHR == 24
ASHR == 25
AND == 26
OR == 27
XOR == 28
FCMP == 52
ICMP_EQ == 32
ICMP_NE == 33
ICMP_UGT == 34
ICMP_UGE == 35
ICMP_ULT == 36
ICMP_ULE == 37
ICMP_SGT == 38
maxEpochs == 50
lrate == 2

\* static const dfsan_label kInitializingLabel = -1;  (as a dfsan_label)
kInitializingLabel == (0 - 1) % kNumLabels

Labels == 0 .. (kNumLabels - 1)
Addrs == 0 .. (NumAddrs - 1)

(***************************************************************************)
(* float: a rational n/d (d > 0) or NaN.  C's == is false on NaN.          *)
(***************************************************************************)
F(n) == [nan |-> FALSE, n |-> n, d |-> 1]
NaN == [nan |-> TRUE, n |-> 0, d |-> 1]

FAdd(a, b) ==
  IF a.nan \/ b.nan THEN NaN
  ELSE [nan |-> FALSE, n |-> a.n * b.d + b.n * a.d, d |-> a.d * b.d]

\* A faulty difference with its operands exchanged.
FSubSwapped(a, b) ==
  IF a.nan \/ b.nan THEN NaN
  ELSE [nan |-> FALSE, n |-> b.n * a.d - a.n * b.d, d |-> a.d * b.d]

FSub(a, b) ==
  IF a.nan \/ b.nan THEN NaN
  ELSE [nan |-> FALSE, n |-> a.n * b.d - b.n * a.d, d |-> a.d * b.d]

\* int * float
FMulI(x, a) == IF a.nan THEN NaN ELSE [nan |-> FALSE, n |-> x * a.n, d |-> a.d]

\* float / int, for a nonzero int
FDivI(a, x) ==
  IF a.nan THEN NaN
  ELSE IF x > 0 THEN [nan |-> FALSE, n |-> a.n, d |-> a.d * x]
  ELSE [nan |-> FALSE, n |-> 0 - a.n, d |-> a.d * (0 - x)]

\* a == b on floats
FEq(a, b) == ~a.nan /\ ~b.nan /\ a.n * b.d = b.n * a.d

\* a == 0
FIsZero(a) == ~a.nan /\ a.n = 0

\* Truncation toward zero of a finite float.
FTrunc(a) == IF a.n >= 0 THEN a.n \div a.d ELSE 0 - ((0 - a.n) \div a.d)

\* ceil() of a finite float.
FCeil(a) == 0 - ((0 - a.n) \div a.d)

\* Conversion of a float to uint8_t.  A value outside 0..255 is not
\* representable; the x86-64 build converts with cvttss2si to a 32-bit
\* integer and keeps the low byte, and NaN converts to 0x80000000.
ToU8(f) == IF f.nan THEN 0 ELSE FTrunc(f) % 256

(***************************************************************************)
(* State.                                                                  *)
(***************************************************************************)
VARIABLES
  last_label,      \* __dfsan_last_label
  label_info,      \* __dfsan_label_info[kNumLabels]
  shadow,          \* shadow memory: one label per application byte
  record_index,    \* __dfsan_record_index
  arg_index,       \* __dfsan_arg_index
  branch_records,  \* __branch_records[BRANCH_RECORDS_SIZE]
  func_arg_records,\* __func_arg_records[FUNC_ARGS_SIZE]
  gr_mode_perf,    \* gr_mode_perf
  flags,           \* flags(): reuse_labels, branch_barriers, default_nan
  dead,            \* the process has been terminated by Die()
  call,            \* the entry point called last, with its arguments
  ret,             \* what the last call with a result returned
  Buf,             \* the driver's copy of the input file
  MetadataPerIter, \* MetadataPerIter[NumIterations]
  BugTargets,      \* BugTargets[0 .. bugTargetCnt-1]
  main,            \* the driver's position: pc, Iter, i, epoch, L
  target           \* the target under test: its threshold and its locals

rt == <<last_label, label_info, shadow, record_index, arg_index,
        branch_records, func_arg_records, gr_mode_perf, flags, dead,
        call, ret>>
drv == <<Buf, MetadataPerIter, BugTargets, main, target>>
vars == <<last_label, label_info, shadow, record_index, arg_index,
          branch_records, func_arg_records, gr_mode_perf, flags, dead,
          call, ret, Buf, MetadataPerIter, BugTargets, main, target>>

\* struct dfsan_label_info, zero-initialised (static storage / memset).
ZeroInfo == [l1 |-> 0, l2 |-> 0, loc |-> "", neg_dydx |-> F(0),
             pos_dydx |-> F(0), opcode |-> 0, f_val |-> 0]

\* struct branch_record and struct func_arg_record, zero-initialised.
ZeroBranch == [lhs_label |-> 0, rhs_label |-> 0, lhs_v |-> 0, rhs_v |-> 0,
               lhs_ndx |-> F(0), lhs_pdx |-> F(0), rhs_ndx |-> F(0),
               rhs_pdx |-> F(0), cond |-> FALSE]

ZeroArg == [inst_id |-> 0, arg_ind |-> 0, label |-> 0, v |-> 0,
            ndx |-> F(0), pdx |-> F(0)]

NoCall == [op |-> "none", l1 |-> 0, l2 |-> 0, x1 |-> 0, x2 |-> 0, opcode |-> 0]

Call(op, l1, l2, x1, x2, opcode) ==
  [op |-> op, l1 |-> l1, l2 |-> l2, x1 |-> x1, x2 |-> x2, opcode |-> opcode]

\* Configurations of DFSAN_OPTIONS the runs are explored under.
FlagConfigs ==
  { [reuse_labels |-> r, branch_barriers |-> b, default_nan |-> n,
     samples |-> 1] :
      r \in BOOLEAN, b \in BOOLEAN, n \in BOOLEAN }

\* The values of flags().samples considered.
SampleCounts == {1, 2}

\* The configurations with every sample count considered.
SampledConfigs ==
  { [c EXCEPT !.samples = n] : c \in FlagConfigs, n \in SampleCounts }

\* struct Metadata, zeroed (calloc).
ZeroMetadata ==
  [local_dfsan_label_info |-> [l \in Labels |-> ZeroInfo],
   num_dfsan_labels |-> 0]

\* The runtime's state as dfsan_init leaves it, under a configuration
\* (GRSAN_DISABLE_LOGGING, DFSAN_OPTIONS) drawn from perfs and cfgs.
InitRuntime(perfs, cfgs) ==
  /\ last_label = 0
  /\ label_info = [[l \in Labels |-> ZeroInfo]
                     EXCEPT ![kInitializingLabel].loc = "<init label>"]
  /\ shadow = [a \in Addrs |-> 0]
  /\ record_index = 0
  /\ arg_index = 0
  /\ branch_records = [i \in 0 .. (BRANCH_RECORDS_SIZE - 1) |-> ZeroBranch]
  /\ func_arg_records = [i \in 0 .. (FUNC_ARGS_SIZE - 1) |-> ZeroArg]
  /\ gr_mode_perf \in perfs
  /\ flags \in cfgs
  /\ dead = FALSE
  /\ call = NoCall
  /\ ret = 0

\* The driver's state when main starts its collection loop, for an input
\* file drawn from bytes and a target drawn from thresholds; pc0 is
\* "none" when the program under the runtime is not the driver.
InitDriver(pc0, bytes, thresholds) ==
  /\ Buf \in [0 .. (InputLen - 1) -> bytes]
  /\ MetadataPerIter = [it \in 0 .. (InputLen - 1) |-> ZeroMetadata]
  /\ BugTargets = <<>>
  /\ main = [phase |-> IF pc0 = "none" THEN "none" ELSE "collect", pc |-> pc0,
             Iter |-> 0, i |-> 0, epoch |-> 0, L |-> 0]
  /\ \E t \in thresholds :
       target = [Threshold |-> t, pc |-> "entry", y |-> 0, y_label |-> 0]

(***************************************************************************)
(* Label allocation.                                                       *)
(***************************************************************************)
\* atomic_fetch_add(&__dfsan_last_label, 1, memory_order_relaxed) + 1,
\* converted to dfsan_label.
NextLabel(last) == (last + 1) % kNumLabels

\* atomic_fetch_add(&__dfsan_arg_index, 1, memory_order_relaxed): what it
\* leaves in the atomic_uint16_t counter.  FUNC_ARGS_SIZE is 65535, the
\* largest value of the counter, so the increment of a full log wraps to 0.
NextArgIndex(index) == (index + 1) % (FUNC_ARGS_SIZE + 1)

\* A faulty check that lets kInitializingLabel out and stops only when the
\* counter has wrapped to 0.
OutOfLabelsAtWrap(label) == label = 0

\* dfsan_check_label: the label that may not be handed out.
OutOfLabels(label) == label = kInitializingLabel

\* The fields of info overwritten by the assignments in upd.
Assign(info, upd) ==
  [f \in DOMAIN info |-> IF f \in DOMAIN upd THEN upd[f] ELSE info[f]]

\* What a call leaves in the label counter, the label table, the argument
\* log and dead, and what it returns: here, a call that returns l and
\* writes nothing.
Returned(l) ==
  [last_label |-> last_label, label_info |-> label_info,
   arg_index |-> arg_index, func_arg_records |-> func_arg_records,
   dead |-> FALSE, ret |-> l]

\* A faulty allocation that indexes the table with the value of the counter
\* before its increment.
AllocatedAtLast(upd) ==
  LET label == NextLabel(last_label) IN
  IF OutOfLabels(label)
    THEN [Returned(ret) EXCEPT !.last_label = label, !.dead = TRUE]
    ELSE [Returned(label) EXCEPT
            !.last_label = label,
            !.label_info = [label_info EXCEPT ![last_label] = Assign(@, upd)]]

\* Take the next label, Die() if the label space is exhausted, else store
\* the fields upd in the new label's entry and return the label.
Allocated(upd) ==
  LET label == NextLabel(last_label) IN
  IF OutOfLabels(label)
    THEN [Returned(ret) EXCEPT !.last_label = label, !.dead = TRUE]
    ELSE [Returned(label) EXCEPT
            !.last_label = label,
            !.label_info = [label_info EXCEPT ![label] = Assign(@, upd)]]

\* The state after a call whose effect is r.
Commit(r) ==
  /\ last_label' = r.last_label
  /\ label_info' = r.label_info
  /\ arg_index' = r.arg_index
  /\ func_arg_records' = r.func_arg_records
  /\ dead' = r.dead
  /\ ret' = r.ret

\* dfsan_label dfsan_create_label(const char *desc)
dfsan_create_label ==
  /\ ~dead
  /\ call' = Call("create", 0, 0, 0, 0, 0)
  /\ Commit(Allocated([l1 |-> 0, l2 |-> 0, loc |-> "desc",
                       neg_dydx |-> F(1), pos_dydx |-> F(1)]))
  /\ UNCHANGED <<shadow, record_index, branch_records, gr_mode_perf, flags>>

\* A faulty flush that clears the tables and leaves the label counter.
dfsan_flush_keeps_count ==
  /\ ~dead
  /\ call' = Call("flush", 0, 0, 0, 0, 0)
  /\ shadow' = [a \in Addrs |-> 0]
  /\ label_info' = [l \in Labels |-> ZeroInfo]
  /\ branch_records' = [i \in 0 .. (BRANCH_RECORDS_SIZE - 1) |-> ZeroBranch]
  /\ func_arg_records' = [i \in 0 .. (FUNC_ARGS_SIZE - 1) |-> ZeroArg]
  /\ arg_index' = 0
  /\ record_index' = 0
  /\ UNCHANGED <<last_label, gr_mode_perf, flags, dead, ret>>

\* A faulty flush that leaves the two logs and their counters as they are.
dfsan_flush_keeps_logs ==
  /\ ~dead
  /\ call' = Call("flush", 0, 0, 0, 0, 0)
  /\ shadow' = [a \in Addrs |-> 0]
  /\ label_info' = [l \in Labels |-> ZeroInfo]
  /\ last_label' = 0
  /\ UNCHANGED <<branch_records, func_arg_records, arg_index, record_index,
                 gr_mode_perf, flags, dead, ret>>

\* A faulty flush that only drops the shadow memory, the label table, the
\* logs and the three counters staying as the trial before left them.
dfsan_flush_only_shadow ==
  /\ ~dead
  /\ call' = Call("flush", 0, 0, 0, 0, 0)
  /\ shadow' = [a \in Addrs |-> 0]
  /\ UNCHANGED <<label_info, last_label, branch_records, func_arg_records,
                 arg_index, record_index, gr_mode_perf, flags, dead, ret>>

\* void dfsan_flush()
dfsan_flush ==
  /\ ~dead
  /\ call' = Call("flush", 0, 0, 0, 0, 0)
  /\ shadow' = [a \in Addrs |-> 0]
  /\ label_info' = [l \in Labels |-> ZeroInfo]
  /\ branch_records' = [i \in 0 .. (BRANCH_RECORDS_SIZE - 1) |-> ZeroBranch]
  /\ func_arg_records' = [i \in 0 .. (FUNC_ARGS_SIZE - 1) |-> ZeroArg]
  /\ last_label' = 0
  /\ arg_index' = 0
  /\ record_index' = 0
  /\ UNCHANGED <<gr_mode_perf, flags, dead, ret>>

\* uptr dfsan_get_label_count(void)
dfsan_get_label_count == last_label

(***************************************************************************)
(* Derivative propagation: DFSAN_INT_UNION.                                *)
(***************************************************************************)
\* The derivative of an operand: that of its label, 0 for label 0.
NegOf(l) == IF l # 0 THEN label_info[l].neg_dydx ELSE F(0)
PosOf(l) == IF l # 0 THEN label_info[l].pos_dydx ELSE F(0)

\* A faulty product rule that pairs each operand with its own derivative.
MulRuleOwnDerivative(x1, x2, dx1, dx2) == FAdd(FMulI(x1, dx1), FMulI(x2, dx2))

\* case MUL: x1 * dx2 + x2 * dx1, one side.
MulRule(x1, x2, dx1, dx2) == FAdd(FMulI(x1, dx2), FMulI(x2, dx1))

\* case SDIV, x2 != 0: (x2 * dx1 - x1 * dx2) / x2, one side.
DivRule(x1, x2, dx1, dx2) == FDivI(FSub(FMulI(x2, dx1), FMulI(x1, dx2)), x2)

\* x1 / x2 on ints: truncation toward zero.
IntDiv(x1, x2) ==
  LET q == (IF x1 >= 0 THEN x1 ELSE 0 - x1) \div (IF x2 >= 0 THEN x2 ELSE 0 - x2)
  IN IF (x1 >= 0) = (x2 >= 0) THEN q ELSE 0 - q

\* A faulty remainder that is the quotient.
IntRemAsQuotient(x1, x2) == IntDiv(x1, x2)

\* x1 % x2 on ints, x2 != 0: the remainder has the sign of x1.
IntRem(x1, x2) == x1 - IntDiv(x1, x2) * x2

\* Conversion of a float to SignedDivType (int).  NaN is not representable;
\* the x86-64 build converts with cvttss2si, which gives INT_MIN.
ToInt(f) == IF f.nan THEN 0 - 2147483647 - 1 ELSE FTrunc(f)

\* A faulty test that holds of the derivative 0 only.
ExactlyZero(d) == FIsZero(d)

\* d > -0.00001 && d < 0.00001: |n| * 100000 < d for the rational n/d.
NearZero(d) ==
  /\ ~d.nan
  /\ (IF d.n >= 0 THEN d.n ELSE 0 - d.n) <= (d.d - 1) \div 100000

\* case SREM, case UREM: the divisor of x1 % x2 or of a sample is 0, and the
\* idiv raises SIGFPE.  Every sample is computed, whether its result is used
\* or not.
RemTraps(x2, neg_dx2, pos_dx2) ==
  \/ x2 = 0
  \/ \E smp \in 1 .. flags.samples :
       \/ x2 - ToInt(FMulI(smp, neg_dx2)) = 0
       \/ x2 + ToInt(FMulI(smp, pos_dx2)) = 0

RECURSIVE RemRule(_, _, _, _, _, _, _)
\* case SREM: the loop over smp = 1 .. nsamples for one side (sign = -1 for
\* neg, 1 for pos), from sample smp on with derivative dydx so far: the
\* first sample whose remainder differs from y sets the derivative to the
\* difference over smp.  case UREM computes the same on operands whose
\* samples stay within the unsigned range.
RemRule(x1, x2, dx1, dx2, sign, smp, dydx) ==
  IF smp > flags.samples THEN dydx
  ELSE IF NearZero(dydx)
    THEN LET y == IntRem(x1, x2)
             s == IntRem(x1 + sign * ToInt(FMulI(smp, dx1)),
                         x2 + sign * ToInt(FMulI(smp, dx2)))
         IN RemRule(x1, x2, dx1, dx2, sign, smp + 1,
                    FDivI(F(sign * (s - y)), smp))
    ELSE RemRule(x1, x2, dx1, dx2, sign, smp + 1, dydx)

RECURSIVE Pow2(_)
\* 1 << n
Pow2(n) == IF n = 0 THEN 1 ELSE 2 * Pow2(n - 1)

RECURSIVE Bitwise(_, _, _)
\* a & b, a | b, a ^ b on two's complement integers, bit by bit.
Bitwise(opcode, a, b) ==
  IF a \in {0, 0 - 1} /\ b \in {0, 0 - 1}
    THEN LET bit == CASE opcode = AND -> a # 0 /\ b # 0
                      [] opcode = OR -> a # 0 \/ b # 0
                      [] OTHER -> (a # 0) # (b # 0)
         IN IF bit THEN 0 - 1 ELSE 0
    ELSE LET bit == CASE opcode = AND -> a % 2 = 1 /\ b % 2 = 1
                      [] opcode = OR -> a % 2 = 1 \/ b % 2 = 1
                      [] OTHER -> a % 2 # b % 2
         IN (IF bit THEN 1 ELSE 0) + 2 * Bitwise(opcode, a \div 2, b \div 2)

\* x1 << x2, x1 >> x2, x1 & x2, x1 | x2, x1 ^ x2, for a shift count within
\* the width and a result that is representable; >> of a negative signed
\* value is the arithmetic shift.
BitOp(opcode, x1, x2) ==
  CASE opcode = SHL -> x1 * Pow2(x2)
    [] opcode \in {LSHR, ASHR} -> x1 \div Pow2(x2)
    [] OTHER -> Bitwise(opcode, x1, x2)

\* The step of sample smp: offset, 1 doubled after each sample, in case
\* LSHR, ASHR and AND; smp in case SHL, OR and XOR.
SampleStep(opcode, smp) ==
  IF opcode \in {LSHR, ASHR, AND} THEN Pow2(smp - 1) ELSE smp

\* The output of the sample of one side at the given step.
BitSample(opcode, x1, x2, dx1, dx2, sign, step) ==
  BitOp(opcode, x1 + sign * ToInt(FMulI(step, dx1)),
                x2 + sign * ToInt(FMulI(step, dx2)))

RECURSIVE BitRule(_, _, _, _, _, _, _, _)
\* case SHL, LSHR, ASHR, AND, OR, XOR: the loop over smp = 1 .. nsamples for
\* one side (sign = -1 for neg, 1 for pos), from sample smp on with
\* derivative dydx so far: a sample replaces a derivative that lies within
\* 0.00001 of 0 by its own difference from y over its step.  case LSHR
\* computes the same on operands whose samples stay within the unsigned
\* range.
BitRule(opcode, x1, x2, dx1, dx2, sign, smp, dydx) ==
  IF smp > flags.samples THEN dydx
  ELSE IF NearZero(dydx)
    THEN LET step == SampleStep(opcode, smp)
             y == BitOp(opcode, x1, x2)
             s == BitSample(opcode, x1, x2, dx1, dx2, sign, step)
         IN BitRule(opcode, x1, x2, dx1, dx2, sign, smp + 1,
                    FDivI(F(sign * (s - y)), step))
    ELSE BitRule(opcode, x1, x2, dx1, dx2, sign, smp + 1, dydx)

\* default: the derivative of an operation with no case in the switch.
DefaultRule == IF flags.default_nan THEN NaN ELSE F(0)

\* The switch over opcode: neg_dydx, pos_dydx and f_val (f_val starts -1).
IntDeriv(opcode, x1, x2, neg_dx1, neg_dx2, pos_dx1, pos_dx2) ==
  CASE opcode = ADD ->
         [neg_dydx |-> FAdd(neg_dx1, neg_dx2),
          pos_dydx |-> FAdd(pos_dx1, pos_dx2), f_val |-> x1 + x2]
    [] opcode = SUB ->
         [neg_dydx |-> FSub(neg_dx1, neg_dx2),
          pos_dydx |-> FSub(pos_dx1, pos_dx2), f_val |-> x1 - x2]
    [] opcode = MUL ->
         [neg_dydx |-> MulRule(x1, x2, neg_dx1, neg_dx2),
          pos_dydx |-> MulRule(x1, x2, pos_dx1, pos_dx2), f_val |-> x1 * x2]
    [] opcode = SDIV ->
         [neg_dydx |-> DivRule(x1, x2, neg_dx1, neg_dx2),
          pos_dydx |-> DivRule(x1, x2, pos_dx1, pos_dx2),
          f_val |-> IntDiv(x1, x2)]
    [] opcode \in {UREM, SREM} ->
         [neg_dydx |-> RemRule(x1, x2, neg_dx1, neg_dx2, 0 - 1, 1, F(0)),
          pos_dydx |-> RemRule(x1, x2, pos_dx1, pos_dx2, 1, 1, F(0)),
          f_val |-> IntRem(x1, x2)]
    [] opcode \in {SHL, LSHR, ASHR, AND, OR, XOR} ->
         [neg_dydx |-> BitRule(opcode, x1, x2, neg_dx1, neg_dx2, 0 - 1, 1, F(0)),
          pos_dydx |-> BitRule(opcode, x1, x2, pos_dx1, pos_dx2, 1, 1, F(0)),
          f_val |-> BitOp(opcode, x1, x2)]
    [] OTHER ->
         [neg_dydx |-> DefaultRule, pos_dydx |-> DefaultRule, f_val |-> 0 - 1]

\* A faulty test that never takes the early return.
NeverBothZero(l1, l2) == FALSE

\* Both operands unlabeled: the early return of the union functions and of
\* the branch visitor.
BothZero(l1, l2) == l1 = 0 /\ l2 = 0

\* A faulty reuse that hands back the first operand's label whatever the
\* derivative computed.
ReuseFirstOperand(l1, l2, d) ==
  IF flags.reuse_labels /\ l1 # 0 THEN l1 ELSE 0

\* What the union does once the derivative d is computed: hand back an
\* operand's label whose derivative pair d equals, or allocate.
\* Result 0 stands for "allocate".
ReuseLabel(l1, l2, d) ==
  IF ~flags.reuse_labels THEN 0
  ELSE IF l1 # 0 /\ FEq(d.pos_dydx, PosOf(l1)) /\ FEq(d.neg_dydx, NegOf(l1))
         THEN l1
  ELSE IF l2 # 0 /\ FEq(d.pos_dydx, PosOf(l2)) /\ FEq(d.neg_dydx, NegOf(l2))
         THEN l2
  ELSE 0

\* The first reuse test: no operand carries any derivative.
NoDerivative(l1, l2) ==
  /\ flags.reuse_labels
  /\ FIsZero(NegOf(l1)) /\ FIsZero(PosOf(l1))
  /\ FIsZero(NegOf(l2)) /\ FIsZero(PosOf(l2))

\* The record record_arg stores at the index it has taken.
ArgRecord(inst_id, arg_ind, label, v) ==
  [inst_id |-> inst_id, arg_ind |-> arg_ind, label |-> label, v |-> v,
   ndx |-> label_info[label].neg_dydx, pdx |-> label_info[label].pos_dydx]

\* A faulty test that logs the divisor with logging disabled as well.
LogsDivisorInPerfMode(l2, opcode) == opcode \in {SDIV, UREM, SREM} /\ l2 # 0

\* case SDIV, case UREM and case SREM log their labeled divisor through
\* record_arg, with their opcode as inst_id, unless logging is disabled.
LogsDivisor(l2, opcode) ==
  opcode \in {SDIV, UREM, SREM} /\ l2 # 0 /\ gr_mode_perf = 0

\* The effect of __dfsan_union(l1, l2, x1, x2, insnID, opcode, location).
IntUnion(l1, l2, x1, x2, opcode) ==
  IF BothZero(l1, l2) THEN Returned(0)
  ELSE IF NoDerivative(l1, l2) THEN Returned(IF l1 # 0 THEN l1 ELSE l2)
  ELSE
    LET logs == LogsDivisor(l2, opcode)
        full == logs /\ arg_index >= FUNC_ARGS_SIZE
        args == IF logs THEN NextArgIndex(arg_index) ELSE arg_index
        recs == IF logs /\ ~full
                  THEN [func_arg_records EXCEPT
                          ![arg_index] = ArgRecord(opcode, 0, l2, x2)]
                  ELSE func_arg_records
        d == IntDeriv(opcode, x1, x2, NegOf(l1), NegOf(l2),
                      PosOf(l1), PosOf(l2))
        r == ReuseLabel(l1, l2, d)
        e == IF \/ full
                \/ opcode = SDIV /\ x2 = 0
                \/ /\ opcode \in {UREM, SREM}
                   /\ RemTraps(x2, NegOf(l2), PosOf(l2))
               THEN [Returned(ret) EXCEPT !.dead = TRUE]
             ELSE IF r # 0 THEN Returned(r)
             ELSE Allocated([l1 |-> l1, l2 |-> l2, opcode |-> opcode,
                             neg_dydx |-> d.neg_dydx, pos_dydx |-> d.pos_dydx,
                             loc |-> "loc", f_val |-> d.f_val])
    IN [e EXCEPT !.arg_index = args, !.func_arg_records = recs]

\* dfsan_label __dfsan_union(l1, l2, x1, x2, insnID, opcode, location)
dfsan_union(l1, l2, x1, x2, opcode) ==
  /\ ~dead
  /\ call' = Call("union", l1, l2, x1, x2, opcode)
  /\ Commit(IntUnion(l1, l2, x1, x2, opcode))
  /\ UNCHANGED <<shadow, record_index, branch_records, gr_mode_perf, flags>>

\* The effect of __dfsan_union_unsupported_type(l1, l2, insnID, opcode,
\* location).
UnsupportedUnion(l1, l2, opcode) ==
  IF BothZero(l1, l2) THEN Returned(0)
  ELSE Allocated([l1 |-> l1, l2 |-> l2, opcode |-> opcode,
                  neg_dydx |-> NaN, pos_dydx |-> NaN, loc |-> "loc"])

\* dfsan_label __dfsan_union_unsupported_type(l1, l2, insnID, opcode, location)
dfsan_union_unsupported_type(l1, l2, opcode) ==
  /\ ~dead
  /\ call' = Call("union_unsupported_type", l1, l2, 0, 0, opcode)
  /\ Commit(UnsupportedUnion(l1, l2, opcode))
  /\ UNCHANGED <<shadow, record_index, branch_records, gr_mode_perf, flags>>

(***************************************************************************)
(* Derivative propagation: DFSAN_FLOAT_UNION.  The operands x1, x2 are the *)
(* floats of integral value the program passes in.                         *)
(***************************************************************************)
\* fmod(a, b): a - b * trunc(a / b); NaN for b = 0.
FMod(a, b) ==
  IF a.nan \/ b.nan \/ b.n = 0 THEN NaN
  ELSE LET q == IntDiv(a.n * b.d, a.d * b.n)
       IN [nan |-> FALSE, n |-> a.n * b.d - q * b.n * a.d, d |-> a.d * b.d]

\* case FDIV: the quotient rule, NaN for a divisor 0.0, one side.
FDivRule(x1, x2, dx1, dx2) == IF x2 # 0 THEN DivRule(x1, x2, dx1, dx2) ELSE NaN

\* case FREM: y - fmod(x1 - dx1, x2 - dx2) for neg (sign = -1) and
\* fmod(x1 + dx1, x2 + dx2) - y for pos (sign = 1).
FRemRule(x1, x2, dx1, dx2, sign) ==
  LET y == FMod(F(x1), F(x2))
      s == IF sign = 1 THEN FMod(FAdd(F(x1), dx1), FAdd(F(x2), dx2))
           ELSE FMod(FSub(F(x1), dx1), FSub(F(x2), dx2))
  IN IF sign = 1 THEN FSub(s, y) ELSE FSub(y, s)

\* The switch over opcode of the float union: neg_dydx and pos_dydx.
FloatDeriv(opcode, x1, x2, neg_dx1, neg_dx2, pos_dx1, pos_dx2) ==
  CASE opcode = FADD ->
         [neg_dydx |-> FAdd(neg_dx1, neg_dx2), pos_dydx |-> FAdd(pos_dx1, pos_dx2)]
    [] opcode = FSUB ->
         [neg_dydx |-> FSub(neg_dx1, neg_dx2), pos_dydx |-> FSub(pos_dx1, pos_dx2)]
    [] opcode = FMUL ->
         [neg_dydx |-> MulRule(x1, x2, neg_dx1, neg_dx2),
          pos_dydx |-> MulRule(x1, x2, pos_dx1, pos_dx2)]
    [] opcode = FDIV ->
         [neg_dydx |-> FDivRule(x1, x2, neg_dx1, neg_dx2),
          pos_dydx |-> FDivRule(x1, x2, pos_dx1, pos_dx2)]
    [] opcode = FREM ->
         [neg_dydx |-> FRemRule(x1, x2, neg_dx1, neg_dx2, 0 - 1),
          pos_dydx |-> FRemRule(x1, x2, pos_dx1, pos_dx2, 1)]
    [] OTHER ->
         [neg_dydx |-> DefaultRule, pos_dydx |-> DefaultRule]

\* case FDIV and case FREM log their labeled divisor through record_arg
\* unless logging is disabled.
FloatLogsDivisor(l2, opcode) ==
  opcode \in {FDIV, FREM} /\ l2 # 0 /\ gr_mode_perf = 0

\* The effect of __dfsan_union_float(l1, l2, x1, x2, insnID, opcode,
\* location).  The new entry's f_val is not written.
FloatUnion(l1, l2, x1, x2, opcode) ==
  IF BothZero(l1, l2) THEN Returned(0)
  ELSE IF NoDerivative(l1, l2) THEN Returned(IF l1 # 0 THEN l1 ELSE l2)
  ELSE
    LET logs == FloatLogsDivisor(l2, opcode)
        full == logs /\ arg_index >= FUNC_ARGS_SIZE
        args == IF logs THEN NextArgIndex(arg_index) ELSE arg_index
        recs == IF logs /\ ~full
                  THEN [func_arg_records EXCEPT
                          ![arg_index] = ArgRecord(opcode, 0, l2, x2)]
                  ELSE func_arg_records
        d == FloatDeriv(opcode, x1, x2, NegOf(l1), NegOf(l2),
                        PosOf(l1), PosOf(l2))
        r == ReuseLabel(l1, l2, d)
        e == IF full THEN [Returned(ret) EXCEPT !.dead = TRUE]
             ELSE IF r # 0 THEN Returned(r)
             ELSE Allocated([l1 |-> l1, l2 |-> l2, opcode |-> opcode,
                             neg_dydx |-> d.neg_dydx, pos_dydx |-> d.pos_dydx,
                             loc |-> "loc"])
    IN [e EXCEPT !.arg_index = args, !.func_arg_records = recs]

\* dfsan_label __dfsan_union_float(l1, l2, x1, x2, insnID, opcode, location)
dfsan_union_float(l1, l2, x1, x2, opcode) ==
  /\ ~dead
  /\ call' = Call("union_float", l1, l2, x1, x2, opcode)
  /\ Commit(FloatUnion(l1, l2, x1, x2, opcode))
  /\ UNCHANGED <<shadow, record_index, branch_records, gr_mode_perf, flags>>

(***************************************************************************)
(* Observation log and branch visitor: record_branch, DFSAN_INT_BRANCH     *)
(* instantiated as __branch_visitor_char (UType = uint8_t).                *)
(***************************************************************************)
\* The comparison a predicate stands for, on unsigned operands.
Cmp(pred, a, b) ==
  CASE pred = ICMP_EQ -> a = b
    [] pred = ICMP_NE -> a # b
    [] pred = ICMP_UGT -> a > b
    [] pred = ICMP_UGE -> a >= b
    [] pred = ICMP_ULT -> a < b
    [] pred = ICMP_ULE -> a <= b

\* The record record_branch stores at the index it has taken.
BranchRecord(lhs, rhs, lhs_v, rhs_v, cond) ==
  [lhs_label |-> lhs, rhs_label |-> rhs, lhs_v |-> lhs_v, rhs_v |-> rhs_v,
   lhs_ndx |-> label_info[lhs].neg_dydx, lhs_pdx |-> label_info[lhs].pos_dydx,
   rhs_ndx |-> label_info[rhs].neg_dydx, rhs_pdx |-> label_info[rhs].pos_dydx,
   cond |-> cond]

\* One side of a branch barrier: the operand derivatives dl, dr survive iff
\* the samples lhs_v (+/-) UType(dl), rhs_v (+/-) UType(dr) leave the
\* outcome of the comparison as it is.  sign is -1 for neg, 1 for pos.
BarrierKeeps(pred, cond, lhs_v, rhs_v, dl, dr, sign) ==
  LET lhs_sample == (lhs_v + sign * ToU8(dl)) % 256
      rhs_sample == (rhs_v + sign * ToU8(dr)) % 256
  IN cond = Cmp(pred, lhs_sample, rhs_sample)

\* A faulty barrier that zeroes the derivatives of the whole table.
BranchBarrierWholeTable(info, lhs, rhs, lhs_v, rhs_v, cond, pred) ==
  [l \in Labels |-> Assign(info[l], [neg_dydx |-> F(0), pos_dydx |-> F(0)])]

\* The label table after the branch barrier has stored the (possibly zeroed)
\* derivatives and the branch's location in both operands' entries: lhs
\* first, rhs second.
BranchBarrier(info, lhs, rhs, lhs_v, rhs_v, cond, pred) ==
  LET lhs_neg_dx == IF lhs # 0 THEN info[lhs].neg_dydx ELSE F(0)
      lhs_pos_dx == IF lhs # 0 THEN info[lhs].pos_dydx ELSE F(0)
      rhs_neg_dx == IF rhs # 0 THEN info[rhs].neg_dydx ELSE F(0)
      rhs_pos_dx == IF rhs # 0 THEN info[rhs].pos_dydx ELSE F(0)
      kn == BarrierKeeps(pred, cond, lhs_v, rhs_v, lhs_neg_dx, rhs_neg_dx, 0 - 1)
      kp == BarrierKeeps(pred, cond, lhs_v, rhs_v, lhs_pos_dx, rhs_pos_dx, 1)
      afterLhs == [info EXCEPT ![lhs] =
                     Assign(@, [neg_dydx |-> IF kn THEN lhs_neg_dx ELSE F(0),
                                pos_dydx |-> IF kp THEN lhs_pos_dx ELSE F(0),
                                loc |-> "br"])]
  IN [afterLhs EXCEPT ![rhs] =
        Assign(@, [neg_dydx |-> IF kn THEN rhs_neg_dx ELSE F(0),
                   pos_dydx |-> IF kp THEN rhs_pos_dx ELSE F(0),
                   loc |-> "br"])]

\* void __branch_visitor_char(lhs, rhs, lhs_v, rhs_v, cond, pred, file_id,
\*                            br_id, is_ptr, location)
\* cond is the outcome of the program's own comparison.
branch_visitor_char(lhs, rhs, lhs_v, rhs_v, pred) ==
  LET cond == Cmp(pred, lhs_v, rhs_v)
      index == record_index
      recording == gr_mode_perf = 0
      overflow == recording /\ index >= BRANCH_RECORDS_SIZE
  IN
  /\ ~dead
  /\ call' = Call("branch", lhs, rhs, lhs_v, rhs_v, pred)
  /\ IF BothZero(lhs, rhs)
       THEN UNCHANGED <<label_info, record_index, branch_records, dead>>
       ELSE
         /\ record_index' = IF recording THEN index + 1 ELSE index
         /\ dead' = overflow
         /\ branch_records' =
              IF recording /\ ~overflow
                THEN [branch_records EXCEPT
                        ![index] = BranchRecord(lhs, rhs, lhs_v, rhs_v, cond)]
                ELSE branch_records
         /\ label_info' =
              IF flags.branch_barriers /\ ~overflow
                THEN BranchBarrier(label_info, lhs, rhs, lhs_v, rhs_v, cond, pred)
                ELSE label_info
  /\ UNCHANGED <<last_label, shadow, arg_index, func_arg_records,
                 gr_mode_perf, flags, ret>>

(***************************************************************************)
(* DFSAN_INT_BRANCH instantiated as __branch_visitor_int (UType = uint32_t, *)
(* SType = int32_t), for the signed predicate the example program uses.    *)
(***************************************************************************)
\* case ICMP_SGT, one side: the operand derivatives survive iff the samples
\* SType(lhs_v) (+/-) SType(dl), SType(rhs_v) (+/-) SType(dr) leave the
\* outcome of lhs > rhs as it is.
SignedBarrierKeeps(cond, lhs_v, rhs_v, dl, dr, sign) ==
  LET lhs_sample == lhs_v + sign * ToInt(dl)
      rhs_sample == rhs_v + sign * ToInt(dr)
  IN cond = (lhs_sample > rhs_sample)

\* The label table after the barrier of an ICMP_SGT branch.
SignedBranchBarrier(info, lhs, rhs, lhs_v, rhs_v, cond) ==
  LET lhs_neg_dx == IF lhs # 0 THEN info[lhs].neg_dydx ELSE F(0)
      lhs_pos_dx == IF lhs # 0 THEN info[lhs].pos_dydx ELSE F(0)
      rhs_neg_dx == IF rhs # 0 THEN info[rhs].neg_dydx ELSE F(0)
      rhs_pos_dx == IF rhs # 0 THEN info[rhs].pos_dydx ELSE F(0)
      kn == SignedBarrierKeeps(cond, lhs_v, rhs_v, lhs_neg_dx, rhs_neg_dx, 0 - 1)
      kp == SignedBarrierKeeps(cond, lhs_v, rhs_v, lhs_pos_dx, rhs_pos_dx, 1)
      afterLhs == [info EXCEPT ![lhs] =
                     Assign(@, [neg_dydx |-> IF kn THEN lhs_neg_dx ELSE F(0),
                                pos_dydx |-> IF kp THEN lhs_pos_dx ELSE F(0),
                                loc |-> "br"])]
  IN [afterLhs EXCEPT ![rhs] =
        Assign(@, [neg_dydx |-> IF kn THEN rhs_neg_dx ELSE F(0),
                   pos_dydx |-> IF kp THEN rhs_pos_dx ELSE F(0),
                   loc |-> "br"])]

\* void __branch_visitor_int(lhs, rhs, lhs_v, rhs_v, cond, ICMP_SGT, file_id,
\*                           br_id, is_ptr, location)
branch_visitor_int(lhs, rhs, lhs_v, rhs_v, cond) ==
  LET index == record_index
      recording == gr_mode_perf = 0
      overflow == recording /\ index >= BRANCH_RECORDS_SIZE
  IN
  /\ ~dead
  /\ call' = Call("branch_int", lhs, rhs, lhs_v, rhs_v, ICMP_SGT)
  /\ IF BothZero(lhs, rhs)
       THEN UNCHANGED <<label_info, record_index, branch_records, dead>>
       ELSE
         /\ record_index' = IF recording THEN index + 1 ELSE index
         /\ dead' = overflow
         /\ branch_records' =
              IF recording /\ ~overflow
                THEN [branch_records EXCEPT
                        ![index] = BranchRecord(lhs, rhs, lhs_v, rhs_v, cond)]
                ELSE branch_records
         /\ label_info' =
              IF flags.branch_barriers /\ ~overflow
                THEN SignedBranchBarrier(label_info, lhs, rhs, lhs_v, rhs_v, cond)
                ELSE label_info
  /\ UNCHANGED <<last_label, shadow, arg_index, func_arg_records,
                 gr_mode_perf, flags, ret>>

(***************************************************************************)
(* DFSAN_FLOAT_BRANCH (__branch_visitor_float) and the __memcpy hook.      *)
(***************************************************************************)
\* void __branch_visitor_float(lhs, rhs, lhs_v, rhs_v, cond, pred, file_id,
\*                             br_id, is_ptr, location)
\* The float visitor records the branch and has no barriers.
branch_visitor_float(lhs, rhs, lhs_v, rhs_v, pred) ==
  LET cond == Cmp(pred, lhs_v, rhs_v)
      index == record_index
      recording == gr_mode_perf = 0 /\ (lhs # 0 \/ rhs # 0)
      overflow == recording /\ index >= BRANCH_RECORDS_SIZE
  IN
  /\ ~dead
  /\ call' = Call("branch_float", lhs, rhs, lhs_v, rhs_v, pred)
  /\ record_index' = IF recording THEN index + 1 ELSE index
  /\ dead' = overflow
  /\ branch_records' =
       IF recording /\ ~overflow
         THEN [branch_records EXCEPT
                 ![index] = BranchRecord(lhs, rhs, lhs_v, rhs_v, cond)]
         ELSE branch_records
  /\ UNCHANGED <<last_label, label_info, shadow, arg_index, func_arg_records,
                 gr_mode_perf, flags, ret>>

\* A faulty record_arg that drops the record when the log is full.
record_arg_dropping(log, inst_id, arg_ind, label, v) ==
  IF log.dead \/ label = 0 \/ gr_mode_perf # 0 \/ log.arg_index >= FUNC_ARGS_SIZE
    THEN log
    ELSE [arg_index |-> NextArgIndex(log.arg_index),
          func_arg_records |->
            [log.func_arg_records EXCEPT
               ![log.arg_index] = ArgRecord(inst_id, arg_ind, label, v)],
          dead |-> FALSE]

\* `if (label) record_arg(ret_addr, inst_id, arg_ind, label, v, location)`
\* on the argument log as the calls before it in the same hook have left it:
\* nothing after a call that has died, nothing when logging is disabled;
\* else take the index, Die() if it is beyond the log, else store.
record_arg(log, inst_id, arg_ind, label, v) ==
  IF log.dead \/ label = 0 \/ gr_mode_perf # 0 THEN log
  ELSE IF log.arg_index >= FUNC_ARGS_SIZE
    THEN [log EXCEPT !.arg_index = NextArgIndex(@), !.dead = TRUE]
  ELSE [arg_index |-> NextArgIndex(log.arg_index),
        func_arg_records |->
          [log.func_arg_records EXCEPT
             ![log.arg_index] = ArgRecord(inst_id, arg_ind, label, v)],
        dead |-> FALSE]

\* dfsan_memcpy(dest, src, n): the shadow of the n bytes at src copied to the
\* shadow of the n bytes at dest.
dfsan_memcpy(dest, src, n) ==
  [a \in Addrs |->
     IF a >= dest /\ a < dest + n THEN shadow[src + (a - dest)] ELSE shadow[a]]

\* void __memcpy(dest, src, n, dest_label, src_label, n_label, location)
memcpy_hook(dest, src, n, dest_label, src_label, n_label) ==
  LET log0 == [arg_index |-> arg_index,
               func_arg_records |-> func_arg_records, dead |-> FALSE]
      log1 == record_arg(log0, 6, 0, dest_label, 0)
      log2 == record_arg(log1, 6, 1, src_label, 0)
      log3 == record_arg(log2, 6, 2, n_label, n)
  IN
  /\ ~dead
  /\ call' = Call("memcpy", dest_label, src_label, n, n_label, 6)
  /\ arg_index' = log3.arg_index
  /\ func_arg_records' = log3.func_arg_records
  /\ dead' = log3.dead
  /\ shadow' = IF log3.dead THEN shadow ELSE dfsan_memcpy(dest, src, n)
  /\ UNCHANGED <<last_label, label_info, record_index, branch_records,
                 gr_mode_perf, flags, ret>>

(***************************************************************************)
(* Shadow memory and provenance queries.                                   *)
(***************************************************************************)
\* void __dfsan_set_label(dfsan_label label, void *addr, uptr size)
dfsan_set_label(label, addr, size) ==
  /\ ~dead
  /\ call' = Call("set_label", label, 0, addr, size, 0)
  /\ shadow' = [a \in Addrs |->
                  IF a >= addr /\ a < addr + size THEN label ELSE shadow[a]]
  /\ UNCHANGED <<last_label, label_info, record_index, arg_index,
                 branch_records, func_arg_records, gr_mode_perf, flags,
                 dead, ret>>

\* The first index i in 1 .. n-1 whose label differs from the label carried
\* so far, which is ls[0] until then; 0 if there is none.
FirstDiffering(addr, n) ==
  LET diff == {i \in 1 .. (n - 1) : shadow[addr + i] # shadow[addr]}
  IN IF diff = {} THEN 0 ELSE CHOOSE i \in diff : \A j \in diff : i <= j

\* The effect of __dfsan_union_load(ls, n) for n > 0: the common label, or
\* on the first differing label a call of __dfsan_union(label, next_label,
\* 0, 0, 0, 0, 0) followed by Die().
union_load(addr, n) ==
  LET i == FirstDiffering(addr, n) IN
  IF i = 0 THEN Returned(shadow[addr])
  ELSE [IntUnion(shadow[addr], shadow[addr + i], 0, 0, 0) EXCEPT
          !.dead = TRUE, !.ret = ret]

\* dfsan_label dfsan_read_label(const void *addr, uptr size)
dfsan_read_label(addr, size) ==
  /\ ~dead
  /\ call' = Call("read_label", 0, 0, addr, size, 0)
  /\ Commit(IF size = 0 THEN Returned(0) ELSE union_load(addr, size))
  /\ UNCHANGED <<shadow, record_index, branch_records, gr_mode_perf, flags>>

RECURSIVE dfsan_has_label(_, _)
\* int dfsan_has_label(dfsan_label label, dfsan_label elem)
dfsan_has_label(label, elem) ==
  IF label = elem THEN TRUE
  ELSE IF label_info[label].l1 # 0
    THEN dfsan_has_label(label_info[label].l1, elem)
         \/ dfsan_has_label(label_info[label].l2, elem)
    ELSE FALSE

\* A call of dfsan_has_label by the program.
HasLabel(label, elem) ==
  /\ ~dead
  /\ call' = Call("has_label", label, elem, 0, 0, 0)
  /\ ret' = IF dfsan_has_label(label, elem) THEN 1 ELSE 0
  /\ UNCHANGED <<last_label, label_info, shadow, record_index, arg_index,
                 branch_records, func_arg_records, gr_mode_perf, flags, dead>>

\* Labels the instrumented program can hold: 0 and those returned since the
\* last flush.
Held == 0 .. last_label

(***************************************************************************)
(* The calls of an instrumented program that is not the driver.            *)
(***************************************************************************)
\* Its instructions (operand values and opcode) and its comparisons (operand
\* values and predicate).
Instructions ==
  { <<1, 4, MUL>>, <<4, 1, MUL>>, <<1, 4, ADD>>, <<4, 4, SDIV>>, <<4, 1, UDIV>> }
Comparisons == { <<4, 4, ICMP_EQ>>, <<1, 4, ICMP_ULT>> }

\* Calls in runs that allocate at most MaxLabels labels between two flushes.
Create == dfsan_create_label /\ last_label' <= MaxLabels /\ UNCHANGED drv
Flush == dfsan_flush /\ UNCHANGED drv
Union ==
  \E l1 \in Held, l2 \in Held, in \in Instructions :
    /\ dfsan_union(l1, l2, in[1], in[2], in[3])
    /\ last_label' <= MaxLabels
    /\ UNCHANGED drv
UnionUnsupported ==
  \E l1 \in Held, l2 \in Held :
    /\ dfsan_union_unsupported_type(l1, l2, FADD)
    /\ last_label' <= MaxLabels
    /\ UNCHANGED drv
Branch ==
  \E lhs \in Held, rhs \in Held, c \in Comparisons :
    branch_visitor_char(lhs, rhs, c[1], c[2], c[3]) /\ UNCHANGED drv
Query ==
  \E label \in 1 .. last_label, elem \in 1 .. last_label :
    HasLabel(label, elem) /\ UNCHANGED drv
SetLabel ==
  \E label \in Held, addr \in Addrs, size \in 0 .. NumAddrs :
    /\ addr + size <= NumAddrs
    /\ dfsan_set_label(label, addr, size)
    /\ UNCHANGED drv
ReadLabel ==
  \E addr \in Addrs, size \in 0 .. NumAddrs :
    /\ addr + size <= NumAddrs
    /\ dfsan_read_label(addr, size)
    /\ last_label' <= MaxLabels
    /\ UNCHANGED drv

(***************************************************************************)
(* Spec: the label table under creation, integer and unsupported-type      *)
(* unions, provenance queries and flushes.                                 *)
(***************************************************************************)
Init ==
  /\ InitRuntime({0}, {c \in FlagConfigs :
                         ~c.branch_barriers /\ c.default_nan = c.reuse_labels})
  /\ InitDriver("none", {0}, {0})

Next == Create \/ Flush \/ Union \/ UnionUnsupported \/ Query

Spec == Init /\ [][Next]_vars

(***************************************************************************)
(* SpecBranch: the label table under creation, unions, flushes and the     *)
(* branch visitor, with logging and branch barriers on and off.            *)
(***************************************************************************)
InitBranch ==
  /\ InitRuntime({0, 1}, {c \in FlagConfigs :
                            ~c.reuse_labels /\ ~c.default_nan})
  /\ InitDriver("none", {0}, {0})

UnionB ==
  \E l1 \in Held, l2 \in Held, in \in {<<1, 4, MUL>>, <<1, 4, ADD>>} :
    /\ dfsan_union(l1, l2, in[1], in[2], in[3])
    /\ last_label' <= MaxLabels
    /\ UNCHANGED drv

NextBranch == Create \/ Flush \/ UnionB \/ UnionUnsupported \/ Branch

SpecBranch == InitBranch /\ [][NextBranch]_vars

(***************************************************************************)
(* SpecShadow: labels attached to application bytes and read back.         *)
(***************************************************************************)
InitShadow ==
  /\ InitRuntime({1}, {c \in FlagConfigs :
                         ~c.branch_barriers /\ ~c.default_nan})
  /\ InitDriver("none", {0}, {0})

NextShadow == Create \/ Flush \/ UnionB \/ SetLabel \/ ReadLabel

SpecShadow == InitShadow /\ [][NextShadow]_vars

(***************************************************************************)
(* SpecCap: allocation up to the exhaustion of the label space.            *)
(***************************************************************************)
InitCap ==
  /\ InitRuntime({1}, {c \in FlagConfigs :
                         ~c.branch_barriers /\ ~c.default_nan})
  /\ InitDriver("none", {0}, {0})

CreateCap == dfsan_create_label /\ UNCHANGED drv
UnionCap ==
  \E l1 \in Held, l2 \in {0, last_label}, in \in {<<1, 4, MUL>>} :
    dfsan_union(l1, l2, in[1], in[2], in[3]) /\ UNCHANGED drv
UnionUnsupportedCap ==
  \E l1 \in {0, last_label} :
    dfsan_union_unsupported_type(l1, 0, FADD) /\ UNCHANGED drv

NextCap == CreateCap \/ Flush \/ UnionCap \/ UnionUnsupportedCap

SpecCap == InitCap /\ [][NextCap]_vars

(***************************************************************************)
(* SpecArith: sums and differences of labeled integers and floats, up to   *)
(* the last label the table can hand out.                                  *)
(***************************************************************************)
\* The call at hand leaves the label space unexhausted.
Fits == last_label' <= kNumLabels - 2

Sums == { <<1, 4, ADD>>, <<4, 1, SUB>> }
FloatSums == { <<1, 4, FADD>>, <<4, 1, FSUB>> }

InitArith ==
  /\ InitRuntime({1}, {c \in FlagConfigs :
                         ~c.branch_barriers /\ ~c.default_nan})
  /\ InitDriver("none", {0}, {0})

CreateFits == dfsan_create_label /\ Fits /\ UNCHANGED drv
UnionSum ==
  \E l1 \in Held, l2 \in Held, in \in Sums :
    dfsan_union(l1, l2, in[1], in[2], in[3]) /\ Fits /\ UNCHANGED drv
UnionFloatSum ==
  \E l1 \in Held, l2 \in Held, in \in FloatSums :
    dfsan_union_float(l1, l2, in[1], in[2], in[3]) /\ Fits /\ UNCHANGED drv

NextArith == CreateFits \/ Flush \/ UnionSum \/ UnionFloatSum

SpecArith == InitArith /\ [][NextArith]_vars

(***************************************************************************)
(* SpecTestInt: the example program test_int, as its instrumented build    *)
(* runs it.  main holds the program counter and the loop variable i,       *)
(* target the locals x, y, z, loop and the labels of the values they hold. *)
(* x fills the model's address range; its bytes carry one label, which is  *)
(* what the load of x gets from __dfsan_union_load.                        *)
(***************************************************************************)
InitTestInt ==
  /\ InitRuntime({0, 1}, SampledConfigs)
  /\ Buf = [b \in 0 .. (InputLen - 1) |-> 0]
  /\ MetadataPerIter = [it \in 0 .. (InputLen - 1) |-> ZeroMetadata]
  /\ BugTargets = <<>>
  /\ main = [phase |-> "test_int", pc |-> "create", Iter |-> 0, i |-> 0,
             epoch |-> 0, L |-> 0]
  /\ target = [x |-> 1, y |-> 0, z |-> 0, loop |-> 0,
               y_label |-> 0, z_label |-> 0, loop_label |-> 0]

\* dfsan_label x_label = dfsan_create_label("x");
test_int_create ==
  /\ main.phase = "test_int" /\ main.pc = "create"
  /\ dfsan_create_label
  /\ main' = [main EXCEPT !.pc = "set_label", !.L = ret']
  /\ UNCHANGED <<Buf, MetadataPerIter, BugTargets, target>>

\* dfsan_set_label(x_label, &x, sizeof(x));
test_int_set_label ==
  /\ main.phase = "test_int" /\ main.pc = "set_label"
  /\ dfsan_set_label(main.L, 0, NumAddrs)
  /\ main' = [main EXCEPT !.pc = "branch"]
  /\ UNCHANGED <<Buf, MetadataPerIter, BugTargets, target>>

\* if (x > 0)
test_int_branch ==
  /\ main.phase = "test_int" /\ main.pc = "branch"
  /\ branch_visitor_int(shadow[0], 0, target.x, 0, target.x > 0)
  /\ main' = [main EXCEPT !.pc = IF target.x > 0 THEN "mul" ELSE "done"]
  /\ UNCHANGED <<Buf, MetadataPerIter, BugTargets, target>>

\* y = 4 * x;
test_int_mul ==
  /\ main.phase = "test_int" /\ main.pc = "mul"
  /\ dfsan_union(0, shadow[0], 4, target.x, MUL)
  /\ target' = [target EXCEPT !.y = 4 * target.x, !.y_label = ret']
  /\ main' = [main EXCEPT !.pc = "srem"]
  /\ UNCHANGED <<Buf, MetadataPerIter, BugTargets>>

\* z = y % 4; loop = y; int i = 1;
test_int_srem ==
  /\ main.phase = "test_int" /\ main.pc = "srem"
  /\ dfsan_union(target.y_label, 0, target.y, 4, SREM)
  /\ target' = [target EXCEPT !.z = IntRem(target.y, 4), !.z_label = ret',
                              !.loop = target.y,
                              !.loop_label = target.y_label]
  /\ main' = [main EXCEPT !.pc = "loop", !.i = 1]
  /\ UNCHANGED <<Buf, MetadataPerIter, BugTargets>>

\* for (; i < 5; i++) loop = loop * i;   (i carries no label: the visitor of
\* i < 5 returns at once)
test_int_loop ==
  /\ main.phase = "test_int" /\ main.pc = "loop"
  /\ dfsan_union(target.loop_label, 0, target.loop, main.i, MUL)
  /\ target' = [target EXCEPT !.loop = target.loop * main.i,
                              !.loop_label = ret']
  /\ main' = [main EXCEPT !.i = main.i + 1,
                          !.pc = IF main.i + 1 < 5 THEN "loop" ELSE "done"]
  /\ UNCHANGED <<Buf, MetadataPerIter, BugTargets>>

NextTestInt ==
  \/ test_int_create \/ test_int_set_label \/ test_int_branch
  \/ test_int_mul \/ test_int_srem \/ test_int_loop

SpecTestInt == InitTestInt /\ [][NextTestInt]_vars

(***************************************************************************)
(* SpecLog: the two observation logs under every operation that appends to *)
(* them, with logging on and off.                                          *)
(***************************************************************************)
\* case UREM computes on unsigned operands: the operands for which every
\* sample and every difference of remainders stays within the unsigned
\* range, where the unsigned arithmetic is that of RemRule.
URemInRange(l1, l2, x1, x2) ==
  /\ x1 >= 0 /\ x2 > 0
  /\ \A smp \in 1 .. flags.samples :
       \A side \in {<<NegOf(l1), NegOf(l2), 0 - 1>>, <<PosOf(l1), PosOf(l2), 1>>} :
         /\ ~side[1].nan /\ ~side[2].nan /\ side[1].n >= 0 /\ side[2].n >= 0
         /\ x1 + side[3] * ToInt(FMulI(smp, side[1])) >= 0
         /\ x2 + side[3] * ToInt(FMulI(smp, side[2])) > 0
         /\ side[3] * (IntRem(x1 + side[3] * ToInt(FMulI(smp, side[1])),
                              x2 + side[3] * ToInt(FMulI(smp, side[2])))
                       - IntRem(x1, x2)) >= 0

Divisions == { <<4, 2, SDIV>>, <<2, 3, SREM>>, <<2, 3, UREM>> }
FloatDivisions == { <<4, 2, FDIV>>, <<4, 3, FREM>> }

\* The call at hand leaves at most MaxLabels labels allocated.
FewLabels == last_label' <= MaxLabels

CreateFew == dfsan_create_label /\ FewLabels /\ UNCHANGED drv

InitLog ==
  /\ InitRuntime({0, 1}, {c \in FlagConfigs :
       ~c.reuse_labels /\ ~c.branch_barriers /\ ~c.default_nan})
  /\ InitDriver("none", {0}, {0})

UnionDivision ==
  \E l1 \in Held, l2 \in Held, in \in Divisions :
    /\ in[3] = UREM => URemInRange(l1, l2, in[1], in[2])
    /\ dfsan_union(l1, l2, in[1], in[2], in[3]) /\ FewLabels /\ UNCHANGED drv
UnionFloatDivision ==
  \E l1 \in Held, l2 \in Held, in \in FloatDivisions :
    /\ dfsan_union_float(l1, l2, in[1], in[2], in[3])
    /\ FewLabels /\ UNCHANGED drv
BranchChar ==
  \E lhs \in Held, rhs \in Held :
    branch_visitor_char(lhs, rhs, 1, 4, ICMP_ULT) /\ UNCHANGED drv
BranchFloat ==
  \E lhs \in Held, rhs \in Held :
    branch_visitor_float(lhs, rhs, 1, 4, ICMP_ULT) /\ UNCHANGED drv
Memcpy ==
  \E dest_label \in Held, src_label \in Held, n_label \in Held :
    memcpy_hook(0, 1, 1, dest_label, src_label, n_label) /\ UNCHANGED drv

NextLog ==
  \/ CreateFew \/ Flush \/ UnionDivision \/ UnionFloatDivision
  \/ BranchChar \/ BranchFloat \/ Memcpy

SpecLog == InitLog /\ [][NextLog]_vars

(***************************************************************************)
(* SpecDiv: signed and float quotients, by zero and by nonzero divisors,   *)
(* and sums of their results.                                              *)
(***************************************************************************)
Quotients == { <<4, 0, SDIV>>, <<4, 2, SDIV>>, <<1, 4, ADD>> }
FloatQuotients == { <<4, 0, FDIV>>, <<4, 2, FDIV>>, <<1, 4, FADD>> }

InitDiv ==
  /\ InitRuntime({1}, {c \in FlagConfigs :
                         ~c.branch_barriers /\ ~c.default_nan})
  /\ InitDriver("none", {0}, {0})

UnionQuotient ==
  \E l1 \in Held, l2 \in Held, in \in Quotients :
    dfsan_union(l1, l2, in[1], in[2], in[3]) /\ Fits /\ UNCHANGED drv
UnionFloatQuotient ==
  \E l1 \in Held, l2 \in Held, in \in FloatQuotients :
    dfsan_union_float(l1, l2, in[1], in[2], in[3]) /\ Fits /\ UNCHANGED drv

NextDiv == CreateFits \/ Flush \/ UnionQuotient \/ UnionFloatQuotient

SpecDiv == InitDiv /\ [][NextDiv]_vars

(***************************************************************************)
(* SpecUnsupported: unions on opcodes without a case in the switch and on  *)
(* operand types without a union function, under both defaults.            *)
(***************************************************************************)
Unsupported == { <<4, 1, UDIV>>, <<4, 1, SUB>> }
FloatUnsupported == { <<4, 1, FCMP>> }

InitUnsupported ==
  /\ InitRuntime({1}, {c \in FlagConfigs : ~c.branch_barriers})
  /\ InitDriver("none", {0}, {0})

UnionDefault ==
  \E l1 \in Held, l2 \in Held, in \in Unsupported :
    dfsan_union(l1, l2, in[1], in[2], in[3]) /\ Fits /\ UNCHANGED drv
UnionFloatDefault ==
  \E l1 \in Held, l2 \in Held, in \in FloatUnsupported :
    dfsan_union_float(l1, l2, in[1], in[2], in[3]) /\ Fits /\ UNCHANGED drv
UnionUnsupportedType ==
  \E l1 \in Held, l2 \in Held :
    dfsan_union_unsupported_type(l1, l2, FADD) /\ Fits /\ UNCHANGED drv

NextUnsupported ==
  \/ CreateFits \/ Flush \/ UnionDefault \/ UnionFloatDefault
  \/ UnionUnsupportedType

SpecUnsupported == InitUnsupported /\ [][NextUnsupported]_vars

(***************************************************************************)
(* The driver (DataFlow.cpp): collect the label table once per input byte, *)
(* select the ADD labels as BugTargets, optimize the source byte of each.  *)
(***************************************************************************)
NumIterations == InputLen

\* int byte_overflow_loss(int x, int f_x)
byte_overflow_loss(x, f_x) == 257 - f_x

\* void PopulateMetadata(Metadata *md): the Metadata a call that returns
\* has filled (SpecPopulate runs its loop statement by statement).
PopulateMetadata ==
  LET cnt == dfsan_get_label_count IN
  [local_dfsan_label_info |->
     [l \in Labels |-> IF l >= 1 /\ l <= cnt + 1 THEN label_info[l]
                       ELSE ZeroInfo],
   num_dfsan_labels |-> cnt]

\* struct BugTarget, zeroed (calloc).
ZeroBugTarget == [srcId |-> 0, sinkId |-> 0, opcode |-> 0, loss |-> "null"]

\* The BugTargets array and the filter's counters when main calls the filter
\* with current_cnt = 0: kMaxBugTargets zeroed entries.
NoTargets ==
  [bugtargets |-> [k \in 1 .. kMaxBugTargets |-> ZeroBugTarget],
   new_cnt |-> 0, num_errors |-> 0]

\* A faulty test that selects the additions of both kinds.
IsAdditionOfAnyKind(i_info) == i_info.opcode \in {ADD, FADD}

\* if (i_info->opcode == ADD)
IsOverflowCandidate(i_info) == i_info.opcode = ADD

\* The body of that test: the target is stored in slot new_cnt, and the
\* count goes back to 0, with an error counted, when it reaches the capacity.
StoreTarget(found, Iter, l, i_info) ==
  LET n == found.new_cnt + 1 IN
  [bugtargets |-> [found.bugtargets EXCEPT
                     ![found.new_cnt + 1] =
                        [srcId |-> Iter, sinkId |-> l,
                         opcode |-> i_info.opcode,
                         loss |-> "byte_overflow_loss"]],
   new_cnt |-> IF n >= kMaxBugTargets THEN 0 ELSE n,
   num_errors |-> IF n >= kMaxBugTargets THEN found.num_errors + 1
                  ELSE found.num_errors]

RECURSIVE int_overflow_filter(_, _, _)
\* int int_overflow_filter(BugTarget **bugtargets, int current_cnt): the
\* array, new_cnt and num_errors once its loops are at iteration Iter,
\* label l.
int_overflow_filter(Iter, l, found) ==
  IF Iter >= NumIterations THEN found
  ELSE
    LET md == MetadataPerIter[Iter] IN
    IF md.num_dfsan_labels <= 1 \/ l > md.num_dfsan_labels
      THEN int_overflow_filter(Iter + 1, 1, found)
      ELSE int_overflow_filter(Iter, l + 1,
             IF IsOverflowCandidate(md.local_dfsan_label_info[l])
               THEN StoreTarget(found, Iter, l, md.local_dfsan_label_info[l])
               ELSE found)

\* The BugTarget newton_optimizer is working on.
bt == BugTargets[main.i + 1]

\* The byte the current pass labels: Buf + Iter in the collection loop,
\* Buf + srcId in newton_optimizer.
SourceByte == IF main.phase = "collect" THEN main.Iter ELSE bt.srcId

\* A faulty update that adds the step instead of subtracting it.
NewValAdded(x, f_x, fderiv_x_p) ==
  IF f_x = 0 \/ fderiv_x_p.nan THEN 0
  ELSE LET second_term == 0 - FCeil(FDivI(fderiv_x_p, f_x))
       IN ToU8(F(x + lrate * second_term))

\* uint8_t new_val = x - (uint8_t) lrate * second_term, with
\* second_term = -1.0 * ceil(fderiv_x_p / f_x), for a quotient that is a
\* number (NewVals covers the quotients that are not).
NewVal(x, f_x, fderiv_x_p) ==
  IF f_x = 0 \/ fderiv_x_p.nan THEN 0
  ELSE LET second_term == 0 - FCeil(FDivI(fderiv_x_p, f_x))
       IN ToU8(F(x - lrate * second_term))

\* The values new_val can take.  With f_x = 0 the float quotient is
\* infinite or NaN, and so is x - lrate * second_term: its conversion to
\* uint8_t is undefined and can leave any byte.
NewVals(x, f_x, fderiv_x_p) ==
  IF f_x = 0 \/ fderiv_x_p.nan THEN 0 .. 255
  ELSE {NewVal(x, f_x, fderiv_x_p)}

\* A faulty store that always writes the first byte of the buffer.
StoreAtFirstByte(buf, srcId, new_val) == [buf EXCEPT ![0] = new_val]

\* Buf[srcId] = new_val
StoreNewVal(buf, srcId, new_val) == [buf EXCEPT ![srcId] = new_val]

\* A faulty read of the gradient that takes the neg derivative.
fderiv_x_n(i_info) == i_info.neg_dydx

\* fderiv_x_p = i_info->pos_dydx, the gradient the update rule uses.
fderiv_x_p(i_info) == i_info.pos_dydx

\* A faulty check that never sees a divergence.
NeverFailedOpcodeCheck(i_info, opcode) == FALSE

\* if (i_info->opcode != opcode): the trace has diverged.
FailedOpcodeCheck(i_info, opcode) == i_info.opcode # opcode

\* A faulty end of a target that starts the same target again.
NextTargetAgain(i) == [main EXCEPT !.epoch = 0, !.pc = "flush"]

\* The driver's position once the optimization of target i has ended.
NextTarget(i) ==
  IF i + 1 < Len(BugTargets)
    THEN [main EXCEPT !.i = i + 1, !.epoch = 0, !.pc = "flush"]
    ELSE [main EXCEPT !.i = i + 1, !.epoch = 0, !.phase = "done"]

Running == main.phase \in {"collect", "optimize"}

\* dfsan_flush() at the head of a pass.
main_flush ==
  /\ Running /\ main.pc = "flush"
  /\ dfsan_flush
  /\ main' = [main EXCEPT !.pc = "create"]
  /\ UNCHANGED <<Buf, MetadataPerIter, BugTargets, target>>

\* dfsan_label L = dfsan_create_label(...)
main_create ==
  /\ Running /\ main.pc = "create"
  /\ dfsan_create_label
  /\ main' = [main EXCEPT !.pc = "set_label", !.L = ret']
  /\ UNCHANGED <<Buf, MetadataPerIter, BugTargets, target>>

\* dfsan_set_label(L, Buf + Iter, 1) / dfsan_set_label(L, Buf + srcId, 1)
main_set_label ==
  /\ Running /\ main.pc = "set_label"
  /\ dfsan_set_label(main.L, SourceByte, 1)
  /\ main' = [main EXCEPT !.pc = "run"]
  /\ target' = [target EXCEPT !.pc = "entry"]
  /\ UNCHANGED <<Buf, MetadataPerIter, BugTargets>>

\* LLVMFuzzerTestOneInput(Buf, InputLen), the target under test:
\*   x = Data[0]; if (x <= Threshold) y = x + 10; else y = x * 2; z = y + 1;
\* as the instrumented build runs it.  With Threshold = 255 it computes
\* f(x) = x + 10 for every byte x.
target_branch ==
  /\ Running /\ main.pc = "run" /\ target.pc = "entry"
  /\ branch_visitor_char(shadow[0], 0, Buf[0], target.Threshold, ICMP_ULE)
  /\ target' = [target EXCEPT
                  !.pc = IF Buf[0] <= target.Threshold THEN "add" ELSE "mul"]
  /\ UNCHANGED <<Buf, MetadataPerIter, BugTargets, main>>

target_add ==
  /\ Running /\ main.pc = "run" /\ target.pc = "add"
  /\ dfsan_union(shadow[0], 0, Buf[0], 10, ADD)
  /\ target' = [target EXCEPT !.pc = "sum", !.y = Buf[0] + 10, !.y_label = ret']
  /\ UNCHANGED <<Buf, MetadataPerIter, BugTargets, main>>

target_mul ==
  /\ Running /\ main.pc = "run" /\ target.pc = "mul"
  /\ dfsan_union(shadow[0], 0, Buf[0], 2, MUL)
  /\ target' = [target EXCEPT !.pc = "sum", !.y = Buf[0] * 2, !.y_label = ret']
  /\ UNCHANGED <<Buf, MetadataPerIter, BugTargets, main>>

target_sum ==
  /\ Running /\ main.pc = "run" /\ target.pc = "sum"
  /\ dfsan_union(target.y_label, 0, target.y, 1, ADD)
  /\ target' = [target EXCEPT !.pc = "return"]
  /\ main' = [main EXCEPT !.pc = "observe"]
  /\ UNCHANGED <<Buf, MetadataPerIter, BugTargets>>

\* The tail of the collection loop: PopulateMetadata(MetadataPerIter[Iter]).
collect_populate ==
  /\ ~dead
  /\ main.phase = "collect" /\ main.pc = "observe"
  /\ MetadataPerIter' = [MetadataPerIter EXCEPT ![main.Iter] = PopulateMetadata]
  /\ main' = IF main.Iter + 1 < NumIterations
               THEN [main EXCEPT !.Iter = main.Iter + 1, !.pc = "flush"]
               ELSE [main EXCEPT !.Iter = main.Iter + 1, !.phase = "filter"]
  /\ UNCHANGED <<Buf, BugTargets, target>>
  /\ UNCHANGED rt

\* The selection of the BugTargets and the head of the optimization loop:
\* BugTargets[0 .. bugTargetCnt-1] is what the loop would run over.  A
\* selection that has counted an error (num_errors) ends the run.
main_filter ==
  /\ ~dead
  /\ main.phase = "filter"
  /\ LET found == int_overflow_filter(0, 1, NoTargets)
         bugTargetCnt == found.new_cnt
     IN /\ BugTargets' = SubSeq(found.bugtargets, 1, bugTargetCnt)
        /\ IF found.num_errors > 0
             THEN main' = [main EXCEPT !.phase = "done"]
             ELSE main' = [main EXCEPT
                             !.phase = IF bugTargetCnt > 0 THEN "optimize"
                                       ELSE "done",
                             !.pc = "flush", !.i = 0, !.epoch = 0]
  /\ UNCHANGED <<Buf, MetadataPerIter, target>>
  /\ UNCHANGED rt

\* The tail of an epoch of newton_optimizer: PopulateMetadata, the opcode
\* check, the update of the source byte.
newton_optimizer ==
  /\ ~dead
  /\ main.phase = "optimize" /\ main.pc = "observe"
  /\ LET md == PopulateMetadata
         x == Buf[bt.srcId]
         i_info == md.local_dfsan_label_info[bt.sinkId]
     IN /\ MetadataPerIter' = [MetadataPerIter EXCEPT ![0] = md]
        /\ IF FailedOpcodeCheck(i_info, bt.opcode)
             THEN /\ main' = NextTarget(main.i)
                  /\ UNCHANGED Buf
             ELSE /\ \E new_val \in NewVals(x, i_info.f_val, fderiv_x_p(i_info)) :
                       Buf' = StoreNewVal(Buf, bt.srcId, new_val)
                  /\ main' = IF main.epoch + 1 < maxEpochs
                               THEN [main EXCEPT !.epoch = main.epoch + 1,
                                                 !.pc = "flush"]
                               ELSE NextTarget(main.i)
  /\ UNCHANGED <<BugTargets, target>>
  /\ UNCHANGED rt

(***************************************************************************)
(* SpecOpt: a run of the driver on an input file and a target.             *)
(***************************************************************************)
\* Bytes of the input file and thresholds of the target the runs start from.
InputBytes == {0, 3, 200, 253}
Thresholds == {6, 255}

InitOpt ==
  /\ InitRuntime({0, 1}, {c \in FlagConfigs : ~c.default_nan})
  /\ InitDriver("flush", InputBytes, Thresholds)

NextOpt ==
  \/ main_flush
  \/ main_create
  \/ main_set_label
  \/ target_branch
  \/ target_add
  \/ target_mul
  \/ target_sum
  \/ collect_populate
  \/ main_filter
  \/ newton_optimizer

SpecOpt == InitOpt /\ [][NextOpt]_vars

\* SpecOpt for runs in which the driver keeps taking steps: the loops of
\* main and newton_optimizer are sequential code, and every call of the
\* target returns.
SpecOptFair == SpecOpt /\ WF_vars(NextOpt)

(***************************************************************************)
(* SpecSweep: the collection loop over a target that computes on the       *)
(* labeled byte, followed by the filter.                                    *)
(***************************************************************************)
\* The instructions of the target (operand values and opcode).
SweepInstructions == { <<1, 4, ADD>>, <<1, 4, MUL>> }
SweepFloatInstructions == { <<1, 4, FADD>> }

InitSweep ==
  /\ InitRuntime({1}, {c \in FlagConfigs : ~c.default_nan})
  /\ InitDriver("flush", {1}, {255})

InTarget == main.phase = "collect" /\ main.pc = "run"

sweep_union ==
  /\ InTarget
  /\ \E l1 \in Held, in \in SweepInstructions :
       dfsan_union(l1, 0, in[1], in[2], in[3])
  /\ Fits
  /\ UNCHANGED drv

sweep_union_float ==
  /\ InTarget
  /\ \E l1 \in Held, in \in SweepFloatInstructions :
       dfsan_union_float(l1, 0, in[1], in[2], in[3])
  /\ Fits
  /\ UNCHANGED drv

\* The target returns to the collection loop.
sweep_return ==
  /\ InTarget /\ ~dead
  /\ main' = [main EXCEPT !.pc = "observe"]
  /\ UNCHANGED <<Buf, MetadataPerIter, BugTargets, target>>
  /\ UNCHANGED rt

NextSweep ==
  \/ main_flush
  \/ main_create
  \/ main_set_label
  \/ sweep_union
  \/ sweep_union_float
  \/ sweep_return
  \/ collect_populate
  \/ main_filter

SpecSweep == InitSweep /\ [][NextSweep]_vars

(***************************************************************************)
(* SpecThreads: threads of the target that call the runtime concurrently.  *)
(* A call is a sequence of steps, one per access to the shared state: the  *)
(* atomic_fetch_add, the test of the value taken, the store.  target holds  *)
(* the position of each thread; main holds the history of the trial (how   *)
(* many calls were handed each label and stored in each log slot).         *)
(***************************************************************************)
Threads == 1 .. NumThreads

IdleThread == [pc |-> "idle", label |-> 0, index |-> 0, upd |-> << >>,
               calls |-> 0]

NoHistory ==
  [phase |-> "threads",
   fetches |-> 0,
   obtained |-> [l \in Labels |-> 0],
   branch_appends |-> 0,
   branch_stores |-> [i \in 0 .. (BRANCH_RECORDS_SIZE - 1) |-> 0],
   arg_appends |-> 0,
   arg_stores |-> [i \in 0 .. (FUNC_ARGS_SIZE - 1) |-> 0]]

InitThreads ==
  /\ InitRuntime({0}, {c \in FlagConfigs :
                         ~c.branch_barriers /\ ~c.default_nan})
  /\ Buf = [b \in 0 .. (InputLen - 1) |-> 0]
  /\ MetadataPerIter = [it \in 0 .. (InputLen - 1) |-> ZeroMetadata]
  /\ BugTargets = <<>>
  /\ main = NoHistory
  /\ target = [t \in Threads |-> IdleThread]

\* The labels the calls of the threads take as operand: the first label of
\* the trial, once it is allocated.
Operands == Held \cap {1}

\* Thread t is between two calls and has calls left.
CanCall(t) == ~dead /\ target[t].pc = "idle" /\ target[t].calls < MaxCalls

\* label = atomic_fetch_add(&__dfsan_last_label, 1, memory_order_relaxed) + 1
\* by thread t, for a label that will get the fields upd.
FetchLabel(t, upd) ==
  /\ last_label' = NextLabel(last_label)
  /\ target' = [target EXCEPT
                  ![t] = [pc |-> "check_label", label |-> NextLabel(last_label),
                          index |-> 0, upd |-> upd, calls |-> @.calls + 1]]
  /\ main' = [main EXCEPT !.fetches = @ + 1]
  /\ UNCHANGED <<label_info, shadow, record_index, arg_index, branch_records,
                 func_arg_records, gr_mode_perf, flags, dead, ret, Buf,
                 MetadataPerIter, BugTargets>>

\* dfsan_create_label, up to its fetch of the counter.
thread_create ==
  \E t \in Threads :
    /\ CanCall(t)
    /\ call' = Call("create", 0, 0, 0, 0, 0)
    /\ FetchLabel(t, [l1 |-> 0, l2 |-> 0, loc |-> "desc",
                      neg_dydx |-> F(1), pos_dydx |-> F(1)])

\* __dfsan_union(l1, 0, 1, 4, ADD), up to its fetch of the counter, or to
\* its return of a reused label.
thread_union ==
  \E t \in Threads, l1 \in Operands :
    LET d == IntDeriv(ADD, 1, 4, NegOf(l1), F(0), PosOf(l1), F(0))
        r == IF NoDerivative(l1, 0) THEN l1 ELSE ReuseLabel(l1, 0, d)
    IN
    /\ CanCall(t)
    /\ call' = Call("union", l1, 0, 1, 4, ADD)
    /\ IF r # 0
         THEN /\ ret' = r
              /\ target' = [target EXCEPT ![t].calls = @ + 1]
              /\ UNCHANGED <<last_label, label_info, shadow, record_index,
                             arg_index, branch_records, func_arg_records,
                             gr_mode_perf, flags, dead, Buf, MetadataPerIter,
                             BugTargets, main>>
         ELSE FetchLabel(t, [l1 |-> l1, l2 |-> 0, opcode |-> ADD,
                             neg_dydx |-> d.neg_dydx, pos_dydx |-> d.pos_dydx,
                             loc |-> "loc", f_val |-> d.f_val])

\* __dfsan_union_unsupported_type(l1, 0, insnID, FADD, location), up to its
\* fetch of the counter.
thread_union_unsupported_type ==
  \E t \in Threads, l1 \in Operands :
    /\ CanCall(t)
    /\ call' = Call("union_unsupported_type", l1, 0, 0, 0, FADD)
    /\ FetchLabel(t, [l1 |-> l1, l2 |-> 0, opcode |-> FADD,
                      neg_dydx |-> NaN, pos_dydx |-> NaN, loc |-> "loc"])

\* dfsan_check_label(label) in thread t: Die() starts on kInitializingLabel,
\* any other value is the label of the call.
thread_check_label ==
  \E t \in Threads :
    /\ ~dead /\ target[t].pc = "check_label"
    /\ IF OutOfLabels(target[t].label)
         THEN /\ target' = [target EXCEPT ![t].pc = "die"]
              /\ UNCHANGED main
         ELSE /\ target' = [target EXCEPT ![t].pc = "store_label"]
              /\ main' = [main EXCEPT !.obtained[target[t].label] = @ + 1]
    /\ UNCHANGED rt
    /\ UNCHANGED <<Buf, MetadataPerIter, BugTargets>>

\* The stores into __dfsan_label_info[label] and the return of the label.
thread_store_label ==
  \E t \in Threads :
    /\ ~dead /\ target[t].pc = "store_label"
    /\ label_info' = [label_info EXCEPT
                        ![target[t].label] = Assign(@, target[t].upd)]
    /\ ret' = target[t].label
    /\ target' = [target EXCEPT ![t].pc = "idle"]
    /\ UNCHANGED <<last_label, shadow, record_index, arg_index,
                   branch_records, func_arg_records, gr_mode_perf, flags,
                   dead, call, Buf, MetadataPerIter, BugTargets, main>>

\* record_branch in thread t, up to its fetch of __dfsan_record_index.
thread_record_branch ==
  \E t \in Threads, lhs \in Operands :
    /\ CanCall(t)
    /\ call' = Call("branch", lhs, 0, 1, 4, ICMP_ULE)
    /\ record_index' = record_index + 1
    /\ target' = [target EXCEPT
                    ![t] = [pc |-> "check_branch", label |-> lhs,
                            index |-> record_index, upd |-> << >>,
                            calls |-> @.calls + 1]]
    /\ main' = [main EXCEPT !.branch_appends = @ + 1]
    /\ UNCHANGED <<last_label, label_info, shadow, arg_index, branch_records,
                   func_arg_records, gr_mode_perf, flags, dead, ret, Buf,
                   MetadataPerIter, BugTargets>>

\* record_arg in thread t, up to its fetch of __dfsan_arg_index; the index
\* is the uint16_t value the counter had.
thread_record_arg ==
  \E t \in Threads, label \in Operands :
    /\ CanCall(t) /\ gr_mode_perf = 0
    /\ call' = Call("record_arg", 0, label, 0, 4, SDIV)
    /\ arg_index' = NextArgIndex(arg_index)
    /\ target' = [target EXCEPT
                    ![t] = [pc |-> "check_arg", label |-> label,
                            index |-> arg_index, upd |-> << >>,
                            calls |-> @.calls + 1]]
    /\ main' = [main EXCEPT !.arg_appends = @ + 1]
    /\ UNCHANGED <<last_label, label_info, shadow, record_index,
                   branch_records, func_arg_records, gr_mode_perf, flags,
                   dead, ret, Buf, MetadataPerIter, BugTargets>>

\* if (index >= BRANCH_RECORDS_SIZE) / if (index >= FUNC_ARGS_SIZE): Die()
\* starts, or the call goes on to its store.
thread_check_index ==
  \E t \in Threads :
    /\ ~dead /\ target[t].pc \in {"check_branch", "check_arg"}
    /\ LET size == IF target[t].pc = "check_branch" THEN BRANCH_RECORDS_SIZE
                   ELSE FUNC_ARGS_SIZE
           store == IF target[t].pc = "check_branch" THEN "store_branch"
                    ELSE "store_arg"
       IN target' = [target EXCEPT
                       ![t].pc = IF target[t].index >= size THEN "die"
                                 ELSE store]
    /\ UNCHANGED rt
    /\ UNCHANGED <<Buf, MetadataPerIter, BugTargets, main>>

\* __branch_records[index] = {...}
thread_store_branch ==
  \E t \in Threads :
    /\ ~dead /\ target[t].pc = "store_branch"
    /\ branch_records' =
         [branch_records EXCEPT
            ![target[t].index] = BranchRecord(target[t].label, 0, 1, 4, TRUE)]
    /\ main' = [main EXCEPT !.branch_stores[target[t].index] = @ + 1]
    /\ target' = [target EXCEPT ![t].pc = "idle"]
    /\ UNCHANGED <<last_label, label_info, shadow, record_index, arg_index,
                   func_arg_records, gr_mode_perf, flags, dead, call, ret,
                   Buf, MetadataPerIter, BugTargets>>

\* __func_arg_records[index] = {...}
thread_store_arg ==
  \E t \in Threads :
    /\ ~dead /\ target[t].pc = "store_arg"
    /\ func_arg_records' =
         [func_arg_records EXCEPT
            ![target[t].index] = ArgRecord(SDIV, 0, target[t].label, 4)]
    /\ main' = [main EXCEPT !.arg_stores[target[t].index] = @ + 1]
    /\ target' = [target EXCEPT ![t].pc = "idle"]
    /\ UNCHANGED <<last_label, label_info, shadow, record_index, arg_index,
                   branch_records, gr_mode_perf, flags, dead, call, ret,
                   Buf, MetadataPerIter, BugTargets>>

\* Die() in thread t has run the die callbacks and ends the process; until
\* then the other threads keep running.
thread_exit ==
  \E t \in Threads :
    /\ ~dead /\ target[t].pc = "die"
    /\ dead' = TRUE
    /\ UNCHANGED <<last_label, label_info, shadow, record_index, arg_index,
                   branch_records, func_arg_records, gr_mode_perf, flags,
                   call, ret>>
    /\ UNCHANGED drv

\* The driver's dfsan_flush() between two trials: every thread of the
\* target has returned.
threads_flush ==
  /\ \A t \in Threads : target[t].pc = "idle"
  /\ dfsan_flush
  /\ main' = NoHistory
  /\ target' = [t \in Threads |-> IdleThread]
  /\ UNCHANGED <<Buf, MetadataPerIter, BugTargets>>

NextThreads ==
  \/ thread_create
  \/ thread_union
  \/ thread_union_unsupported_type
  \/ thread_check_label
  \/ thread_store_label
  \/ thread_record_branch
  \/ thread_record_arg
  \/ thread_check_index
  \/ thread_store_branch
  \/ thread_store_arg
  \/ thread_exit
  \/ threads_flush

SpecThreads == InitThreads /\ [][NextThreads]_vars

(***************************************************************************)
(* SpecSample: the finite-difference cases of the integer union, under     *)
(* sample budgets of 1, 2 and 19.                                           *)
(***************************************************************************)
SampleBudgets == {1, 2, 19}

\* Remainders, shifts and bitwise operations of a labeled first operand
\* with a constant, and bitwise operations of two labeled operands.
Samplings ==
  { <<21, 4, SREM>>, <<24, 4, SREM>>, <<21, 4, UREM>>,
    <<1, 2, SHL>>, <<524288, 1, LSHR>>, <<5, 1, ASHR>>, <<131072, 18, ASHR>>,
    <<5, 4, AND>>, <<4, 3, OR>>, <<5, 1, XOR>> }
LabeledSamplings == { <<5, 6, AND>>, <<4, 3, OR>>, <<5, 1, XOR>> }

\* case LSHR computes on unsigned operands: the operands for which every
\* sample and every difference of outputs stays within the unsigned range,
\* where the unsigned arithmetic is that of BitRule.
LShrInRange(l1, x1, x2) ==
  /\ x1 >= 0 /\ x2 >= 0
  /\ \A smp \in 1 .. flags.samples :
       \A side \in {<<NegOf(l1), 0 - 1>>, <<PosOf(l1), 1>>} :
         /\ ~side[1].nan /\ side[1].n >= 0
         /\ x1 + side[2] * ToInt(FMulI(SampleStep(LSHR, smp), side[1])) >= 0
         /\ side[2] * (BitSample(LSHR, x1, x2, side[1], F(0), side[2],
                                 SampleStep(LSHR, smp))
                       - BitOp(LSHR, x1, x2)) >= 0

InitSample ==
  /\ InitRuntime({1}, {[c EXCEPT !.samples = n] :
                         c \in {f \in FlagConfigs : ~f.branch_barriers
                                                    /\ ~f.default_nan},
                         n \in SampleBudgets})
  /\ InitDriver("none", {0}, {0})

UnionSampling ==
  \E l1 \in Held \ {0}, in \in Samplings :
    /\ in[3] = UREM => URemInRange(l1, 0, in[1], in[2])
    /\ in[3] = LSHR => LShrInRange(l1, in[1], in[2])
    /\ dfsan_union(l1, 0, in[1], in[2], in[3]) /\ FewLabels /\ UNCHANGED drv

UnionLabeledSampling ==
  \E l1 \in Held \ {0}, l2 \in Held \ {0}, in \in LabeledSamplings :
    dfsan_union(l1, l2, in[1], in[2], in[3]) /\ FewLabels /\ UNCHANGED drv

NextSample == CreateFew \/ Flush \/ UnionSampling \/ UnionLabeledSampling

SpecSample == InitSample /\ [][NextSample]_vars

(***************************************************************************)
(* SpecDump: a logging or non-logging process that allocates labels,       *)
(* appends to the two logs and ends, either by returning from main (the    *)
(* Atexit registration of dfsan_fini) or in Die() (its AddDieCallback      *)
(* registration).  call.op = "fini" is the position after the dump: the    *)
(* process has ended.                                                      *)
(***************************************************************************)
\* flags().gradient_logfile, branch_logfile, func_logfile: the log files
\* that can be named in DFSAN_OPTIONS.
Logfiles == {"gradient", "branch", "func"}

\* void dfsan_dump_labels(int fd): for (uptr l = 1; l <= last_label; ++l)
\* reads __dfsan_label_info[l]; the value is the number of entries read.
dfsan_dump_labels == last_label

\* void dfsan_dump_branches(int fd): for (uptr l = 0; l < last_index; ++l)
\* reads __branch_records[l], last_index being the counter as loaded; the
\* value is the number of slots read.
dfsan_dump_branches == record_index

\* void dfsan_dump_func_args(int fd): for (uptr l = 0; l < last_index; ++l)
\* reads __func_arg_records[l]; the value is the number of slots read.
dfsan_dump_func_args == arg_index

\* static void dfsan_fini(): nothing in performance mode; otherwise the
\* three dumps in order, each when its file is named, and a return at the
\* first file that cannot be opened.  named are the files named in the
\* flags (fixed since dfsan_init, read here for the first time), opened
\* those OpenFile succeeds on.  call records how many entries each dump
\* read: l1 label entries, x1 branch slots, x2 argument slots.
dfsan_fini(named, opened) ==
  LET failed(f) == f \in named /\ f \notin opened
      runs(f) == gr_mode_perf = 0 /\ f \in named /\ f \in opened
      labels == runs("gradient")
      branches == runs("branch") /\ ~failed("gradient")
      args == runs("func") /\ ~failed("gradient") /\ ~failed("branch")
  IN
  /\ call' = Call("fini", IF labels THEN dfsan_dump_labels ELSE 0, 0,
                  IF branches THEN dfsan_dump_branches ELSE 0,
                  IF args THEN dfsan_dump_func_args ELSE 0, 0)
  /\ UNCHANGED <<last_label, label_info, shadow, record_index, arg_index,
                 branch_records, func_arg_records, gr_mode_perf, flags,
                 dead, ret>>

\* The process has not ended.
Alive == call.op # "fini"

InitDump == InitLog

DumpCreate == Alive /\ CreateFew
DumpFlush == Alive /\ Flush
DumpBranchChar == Alive /\ BranchChar
DumpBranchFloat == Alive /\ BranchFloat
DumpMemcpy == Alive /\ Memcpy

\* Atexit(dfsan_fini): the program returns from main or calls exit.
AtExit ==
  /\ Alive /\ ~dead
  /\ \E named \in SUBSET Logfiles, opened \in SUBSET Logfiles :
       dfsan_fini(named, opened)
  /\ UNCHANGED drv

\* AddDieCallback(dfsan_fini): Die() runs the callback before it ends the
\* process.
DieCallback ==
  /\ Alive /\ dead
  /\ \E named \in SUBSET Logfiles, opened \in SUBSET Logfiles :
       dfsan_fini(named, opened)
  /\ UNCHANGED drv

NextDump ==
  \/ DumpCreate \/ DumpFlush \/ DumpBranchChar \/ DumpBranchFloat
  \/ DumpMemcpy \/ AtExit \/ DieCallback

SpecDump == InitDump /\ [][NextDump]_vars

(***************************************************************************)
(* SpecPopulate: PopulateMetadata statement by statement, called with any  *)
(* number of labels that can be allocated without ending the process.  The *)
(* loop variable is a dfsan_label: it has as many values as the table has  *)
(* entries and wraps to 0 after the last one.                              *)
(***************************************************************************)
\* The caller is between two calls of PopulateMetadata.
Idle == [phase |-> "populate", pc |-> "idle", l |-> 0, cnt |-> 0]

InitPopulate ==
  /\ InitRuntime({1}, {c \in FlagConfigs :
       ~c.reuse_labels /\ ~c.branch_barriers /\ ~c.default_nan})
  /\ Buf = [b \in 0 .. (InputLen - 1) |-> 0]
  /\ MetadataPerIter = [it \in 0 .. (InputLen - 1) |-> ZeroMetadata]
  /\ BugTargets = <<>>
  /\ main = Idle
  /\ target = [Threshold |-> 0, pc |-> "entry", y |-> 0, y_label |-> 0]

PopulateCreate == main.pc = "idle" /\ CreateFits
PopulateFlush == main.pc = "idle" /\ Flush
PopulateUnion == main.pc = "idle" /\ UnionSum

\* PopulateMetadata(md), up to the loop: memset(md, 0, sizeof(Metadata));
\* size_t cnt = dfsan_get_label_count(); md->num_dfsan_labels = cnt;
\* dfsan_label l = 1.
populate_enter ==
  /\ main.pc = "idle" /\ ~dead
  /\ main' = [main EXCEPT !.pc = "loop", !.l = 1,
                          !.cnt = dfsan_get_label_count]
  /\ MetadataPerIter' =
       [MetadataPerIter EXCEPT
          ![0] = [ZeroMetadata EXCEPT
                    !.num_dfsan_labels = dfsan_get_label_count]]
  /\ UNCHANGED <<rt, Buf, BugTargets, target>>

\* One evaluation of `l <= cnt+1` and, when it holds, one pass of the body:
\* memcpy(&md->local_dfsan_label_info[l], dfsan_get_label_info(l), ...)
\* and ++l in the width of dfsan_label.
populate_step ==
  /\ main.pc = "loop"
  /\ IF main.l <= main.cnt + 1
       THEN /\ MetadataPerIter' =
                 [MetadataPerIter EXCEPT
                    ![0].local_dfsan_label_info[main.l] = label_info[main.l]]
            /\ main' = [main EXCEPT !.l = NextLabel(main.l)]
       ELSE /\ main' = [main EXCEPT !.pc = "done"]
            /\ UNCHANGED MetadataPerIter
  /\ UNCHANGED <<rt, Buf, BugTargets, target>>

\* PopulateMetadata has returned to its caller.
populate_return ==
  /\ main.pc = "done"
  /\ main' = Idle
  /\ UNCHANGED <<rt, Buf, MetadataPerIter, BugTargets, target>>

NextPopulate ==
  \/ PopulateCreate \/ PopulateFlush \/ PopulateUnion
  \/ populate_enter \/ populate_step \/ populate_return

SpecPopulate == InitPopulate /\ [][NextPopulate]_vars

\* The statements of a call run one after the other: a call that is in its
\* loop goes on.
SpecPopulateFair == SpecPopulate /\ WF_vars(populate_step)

(***************************************************************************)
(* SpecDivisor: a run of the driver on a target whose sink adds two bytes  *)
(* of the input.                                                           *)
(***************************************************************************)
\* Bytes of the input file the runs start from.
SummedBytes == {0, 1, 255}

InitDivisor ==
  /\ InitRuntime({1}, {c \in FlagConfigs :
       ~c.reuse_labels /\ ~c.branch_barriers /\ ~c.default_nan})
  /\ InitDriver("flush", SummedBytes, {255})

\* LLVMFuzzerTestOneInput(Buf, InputLen), a target with one addition:
\*   y = Data[0] + Data[1];
\* as the instrumented build runs it.
target_pair ==
  /\ Running /\ main.pc = "run" /\ target.pc = "entry"
  /\ dfsan_union(shadow[0], shadow[1], Buf[0], Buf[1], ADD)
  /\ target' = [target EXCEPT !.pc = "return", !.y = Buf[0] + Buf[1],
                              !.y_label = ret']
  /\ main' = [main EXCEPT !.pc = "observe"]
  /\ UNCHANGED <<Buf, MetadataPerIter, BugTargets>>

NextDivisor ==
  \/ main_flush
  \/ main_create
  \/ main_set_label
  \/ target_pair
  \/ collect_populate
  \/ main_filter
  \/ newton_optimizer

SpecDivisor == InitDivisor /\ [][NextDivisor]_vars

(***************************************************************************)
(* Properties.                                                             *)
(***************************************************************************)
\* Equality of two stored floats as values: NaN matches NaN.
Same(a, b) == (a.nan /\ b.nan) \/ FEq(a, b)

RECURSIVE Reaches(_, _)
\* elem is label, or is reached from label over nonzero parent links.
Reaches(label, elem) ==
  \/ label = elem
  \/ /\ label # 0
     /\ \/ Reaches(label_info[label].l1, elem)
        \/ Reaches(label_info[label].l2, elem)

\* C1. DAG invariant: in every state reached by create, combine,
\* unsupported-type combine, branch-visitor and reset calls whose label
\* arguments are 0 or labels returned since the last reset, every allocated
\* label l > 0 has parent1(l) < l and parent2(l) < l.
DAGInvariant ==
  \A l \in 1 .. last_label : label_info[l].l1 < l /\ label_info[l].l2 < l

\* A label with two nonzero parents has gone through a branch barrier.
DAGInvariantWitness ==
  /\ last_label = 2
  /\ label_info[2].l1 = 1 /\ label_info[2].l2 = 1
  /\ call.op = "branch" /\ call.l1 = 2 /\ flags.branch_barriers

\* C2, as the code has it. Of the kNumLabels values of a label, 0 and
\* kInitializingLabel are never handed out: the first kNumLabels - 2
\* allocations since the last reset succeed, each returning the label one
\* above the last, and the allocation after them terminates the process.
CapacityIsTwoShort ==
  [][(call'.op # "flush" /\ last_label' # last_label) =>
       /\ last_label' = last_label + 1
       /\ IF last_label' <= kNumLabels - 2
            THEN ~dead' /\ ret' = last_label'
            ELSE dead']_vars

\* The process has died on the allocation that follows kNumLabels - 2
\* successful ones.
CapacityWitness ==
  /\ dead /\ last_label = kNumLabels - 1
  /\ \A l \in 1 .. (kNumLabels - 2) : label_info[l].loc # ""

\* C2, as stated. With capacity = kNumLabels, the process is terminated only
\* by the attempt to allocate the (capacity+1)-th label since the last reset.
\* last_label counts the allocation attempts since the last reset.
CapacityAsStated == dead => last_label >= kNumLabels + 1

\* C3, as stated. dfsan_has_label(label, elem) returns true exactly when elem
\* equals label or is reachable from label over parent1/parent2 links, also
\* for labels whose first parent is 0 and whose second parent is not.
HasLabelIsMembership ==
  (call.op = "has_label" /\ call.l2 # 0) =>
    (ret = 1 <=> Reaches(call.l1, call.l2))

\* C4, as stated. dfsan_read_label(addr, size) returns 0 for size 0 and
\* otherwise a label that holds the label of every byte of the range, also
\* when the bytes carry different labels.
ReadLabelIsUnion ==
  call.op = "read_label" =>
    /\ ~dead
    /\ call.x2 = 0 => ret = 0
    /\ \A a \in call.x1 .. (call.x1 + call.x2 - 1) :
         shadow[a] = 0 \/ Reaches(ret, shadow[a])

\* C5, as the code has it. Between two resets no call changes the parents,
\* the opcode or the concrete value of a label already created, and the
\* only call that changes its derivatives or its location is the integer
\* branch visitor with branch barriers enabled, on its operand labels.
ImmutableButForBarriers ==
  [][call'.op # "flush" =>
       \A l \in 1 .. last_label :
         /\ label_info'[l].l1 = label_info[l].l1
         /\ label_info'[l].l2 = label_info[l].l2
         /\ label_info'[l].opcode = label_info[l].opcode
         /\ label_info'[l].f_val = label_info[l].f_val
         /\ label_info'[l] # label_info[l] =>
              /\ call'.op = "branch" /\ flags.branch_barriers
              /\ l \in {call'.l1, call'.l2}]_vars

\* A created label whose derivative a branch barrier has zeroed.
BarrierWitness ==
  /\ call.op = "branch" /\ call.l1 = 1 /\ flags.branch_barriers
  /\ label_info[1].opcode = 0 /\ label_info[1].l1 = 0
  /\ label_info[1].loc = "br"
  /\ FIsZero(label_info[1].neg_dydx) /\ FIsZero(label_info[1].pos_dydx)

\* C5, as stated. Once a label has been created, no call other than reset
\* changes any field of its entry.
LabelsImmutable ==
  [][call'.op # "flush" =>
       \A l \in 1 .. last_label : label_info'[l] = label_info[l]]_vars

\* C6. Zero short-circuit: for every opcode and pair of concrete values, a
\* combine of two labels 0 returns 0, allocates no label, writes no entry of
\* the label table and appends no argument record.
ZeroShortCircuit ==
  [][(/\ call'.op \in {"union", "union_unsupported_type"}
      /\ call'.l1 = 0 /\ call'.l2 = 0) =>
       /\ ret' = 0
       /\ UNCHANGED <<last_label, label_info, arg_index, func_arg_records,
                      shadow, record_index, branch_records, dead>>]_vars

\* A division of two unlabeled operands has returned 0 in a state with
\* labels and a logged argument.
ZeroShortCircuitWitness ==
  /\ call.op = "union" /\ call.l1 = 0 /\ call.l2 = 0 /\ call.opcode = SDIV
  /\ ret = 0 /\ last_label = 2 /\ arg_index = 1

\* C7. Reset: after dfsan_flush the label count is 0, and a
\* dfsan_create_label that follows it returns label 1.
ResetThenCreate ==
  [][/\ call'.op = "flush" => last_label' = 0
     /\ (call.op = "flush" /\ call'.op = "create") => (ret' = 1 /\ ~dead')]_vars

\* A flush has emptied a table whose last call had returned label 2.
ResetWitness ==
  /\ call.op = "flush" /\ ret = 2
  /\ dfsan_get_label_count = 0

\* The derivative the product rule gives one side.
Product(x1, x2, dx1, dx2) == FAdd(FMulI(x1, dx2), FMulI(x2, dx1))

\* C10. Product rule: a MUL that allocates a label stores, for neg and for
\* pos separately, x1*dx2 + x2*dx1 and the concrete value x1*x2; a label of
\* derivative (1.0, 1.0) and value 1 combined via MUL with an unlabeled
\* operand of value 4 allocates a label of derivative (4.0, 4.0), value 4.
ProductRule ==
  [][(call'.op = "union" /\ call'.opcode = MUL /\ ~dead') =>
       LET l1 == call'.l1
           l2 == call'.l2
           x1 == call'.x1
           x2 == call'.x2
           new == label_info'[ret']
       IN /\ last_label' # last_label =>
               /\ ret' = last_label'
               /\ Same(new.neg_dydx, Product(x1, x2, NegOf(l1), NegOf(l2)))
               /\ Same(new.pos_dydx, Product(x1, x2, PosOf(l1), PosOf(l2)))
               /\ new.f_val = x1 * x2
          /\ (/\ l1 # 0 /\ l2 = 0 /\ x1 = 1 /\ x2 = 4
              /\ FEq(NegOf(l1), F(1)) /\ FEq(PosOf(l1), F(1))) =>
               /\ last_label' = last_label + 1
               /\ FEq(new.neg_dydx, F(4)) /\ FEq(new.pos_dydx, F(4))
               /\ new.f_val = 4]_vars

\* With label reuse enabled, X * 4 has allocated a label of derivative
\* (4.0, 4.0) and value 4 from a label X of derivative (1.0, 1.0).
ProductRuleWitness ==
  /\ flags.reuse_labels
  /\ call.op = "union" /\ call.opcode = MUL
  /\ call.l1 = 1 /\ call.l2 = 0 /\ call.x1 = 1 /\ call.x2 = 4
  /\ FEq(label_info[1].neg_dydx, F(1)) /\ FEq(label_info[1].pos_dydx, F(1))
  /\ ret = 2 /\ last_label = 2
  /\ FEq(label_info[2].neg_dydx, F(4)) /\ FEq(label_info[2].pos_dydx, F(4))
  /\ label_info[2].f_val = 4

\* The step that ends an epoch of newton_optimizer starts here.
InObserve == main.phase = "optimize" /\ main.pc = "observe"

\* What that step finds for the sink of the current BugTarget.
Observed == MetadataPerIter'[0].local_dfsan_label_info[bt.sinkId]

\* y lies above x, modulo 256.
Upward(x, y) == (y - x) % 256 \in 1 .. 127

\* C8. Convergence shape: for the target computing f(x) = x + 10, every
\* epoch that finds the sink's opcode still ADD moves the source byte upward
\* (mod 256); an epoch that finds another opcode is the last of its target.
ConvergenceShape ==
  [][/\ InObserve =>
          /\ (target.Threshold = 255 /\ Observed.opcode = ADD) =>
                Upward(Buf[bt.srcId], Buf'[bt.srcId])
          /\ Observed.opcode # ADD => main'.i = main.i + 1
     /\ main.phase = "optimize" => main'.i >= main.i]_vars

\* Two epochs on f(x) = x + 10 have taken the source byte from 253 over 255,
\* where the sink's value was 265, to 1.
ConvergenceWitness ==
  /\ target.Threshold = 255
  /\ main.phase = "optimize" /\ main.pc = "flush"
  /\ main.i = 0 /\ main.epoch = 2
  /\ BugTargets[1].sinkId = 2
  /\ MetadataPerIter[0].local_dfsan_label_info[2].opcode = ADD
  /\ MetadataPerIter[0].local_dfsan_label_info[2].f_val = 265
  /\ Buf[0] = 1

Linear(opcode, r, a, b) ==
  IF opcode \in {ADD, FADD} THEN Same(r, FAdd(a, b)) ELSE Same(FAdd(r, b), a)

\* The label the last call returned has just been allocated.
IsNew == last_label' # last_label /\ ret' = last_label' /\ ~dead'

\* C11, as the code has it. An ADD/SUB (FADD/FSUB) of operands not both
\* unlabeled returns a label whose derivative is, per side, the sum/difference
\* of the operands' derivatives; A of derivative (1.0, 1.0) plus B of
\* derivative (2.0, 2.0) allocates a label of derivative (3.0, 3.0).  A label
\* allocated by the integer ADD/SUB records the sum/difference of the
\* concrete operands; one allocated by the float FADD/FSUB records no
\* concrete value (f_val stays 0).
AddSubLinear ==
  [][(/\ call'.op \in {"union", "union_float"}
      /\ call'.opcode \in {ADD, SUB, FADD, FSUB}
      /\ ~BothZero(call'.l1, call'.l2) /\ ~dead') =>
       LET l1 == call'.l1
           l2 == call'.l2
           op == call'.opcode
           new == label_info'[ret']
       IN /\ ret' # 0
          /\ Linear(op, new.neg_dydx, NegOf(l1), NegOf(l2))
          /\ Linear(op, new.pos_dydx, PosOf(l1), PosOf(l2))
          /\ IsNew =>
               new.f_val = CASE op = ADD -> call'.x1 + call'.x2
                             [] op = SUB -> call'.x1 - call'.x2
                             [] OTHER -> 0
          /\ (/\ op = ADD /\ l1 # 0 /\ l2 # 0
              /\ FEq(NegOf(l1), F(1)) /\ FEq(PosOf(l1), F(1))
              /\ FEq(NegOf(l2), F(2)) /\ FEq(PosOf(l2), F(2))) =>
               /\ IsNew
               /\ FEq(new.neg_dydx, F(3)) /\ FEq(new.pos_dydx, F(3))]_vars

\* A + B has allocated label 3 of derivative (3.0, 3.0) and value 5 from A of
\* derivative (1.0, 1.0) and B of derivative (2.0, 2.0).
AddSubLinearWitness ==
  /\ call.op = "union" /\ call.opcode = ADD /\ call.l1 = 1 /\ call.l2 = 2
  /\ FEq(label_info[1].neg_dydx, F(1)) /\ FEq(label_info[1].pos_dydx, F(1))
  /\ FEq(label_info[2].neg_dydx, F(2)) /\ FEq(label_info[2].pos_dydx, F(2))
  /\ ret = 3 /\ last_label = 3
  /\ FEq(label_info[3].neg_dydx, F(3)) /\ FEq(label_info[3].pos_dydx, F(3))
  /\ label_info[3].f_val = 5

\* C11, as stated. Every label an additive opcode allocates, integer or
\* float, records the sum/difference of the concrete operands.
AddSubValueRecorded ==
  [][(/\ call'.op \in {"union", "union_float"}
      /\ call'.opcode \in {ADD, SUB, FADD, FSUB} /\ IsNew) =>
       label_info'[ret'].f_val =
         IF call'.opcode \in {ADD, FADD} THEN call'.x1 + call'.x2
         ELSE call'.x1 - call'.x2]_vars

\* The example program has computed y and z.
PastZ == main.phase = "test_int" /\ main.pc \in {"loop", "done"}

Labeled(ls) == Cardinality({i \in DOMAIN ls : ls[i] # 0})

\* The appends to the branch log and to the argument log the last call
\* attempts when logging is enabled.
BranchAppends(c) ==
  IF c.op \in {"branch", "branch_float"} /\ ~BothZero(c.l1, c.l2) THEN 1 ELSE 0
ArgAppends(c) ==
  CASE c.op \in {"union", "union_float"} ->
         IF /\ c.opcode \in {SDIV, UREM, SREM, FDIV, FREM}
            /\ c.l2 # 0 THEN 1 ELSE 0
    [] c.op = "memcpy" -> Labeled(<<c.l1, c.l2, c.x2>>)
    [] OTHER -> 0

\* C13. With logging enabled, every append to the branch log made while
\* fewer than BRANCH_RECORDS_SIZE records are stored, and every append to
\* the argument log made while fewer than FUNC_ARGS_SIZE are stored, stores
\* its record at the next index, leaves the other records alone and does
\* not end the process; the first append beyond the capacity ends the
\* process, with no record dropped silently and none overwritten.
LogCapacity ==
  [][(gr_mode_perf = 0 /\ call'.op # "flush") =>
       LET b == BranchAppends(call')
           a == ArgAppends(call')
           bfit == IF record_index + b <= BRANCH_RECORDS_SIZE THEN b
                   ELSE BRANCH_RECORDS_SIZE - record_index
           afit == IF arg_index + a <= FUNC_ARGS_SIZE THEN a
                   ELSE FUNC_ARGS_SIZE - arg_index
       IN /\ dead' = (bfit < b \/ afit < a)
          /\ record_index' = IF bfit < b THEN record_index + bfit + 1
                             ELSE record_index + b
          /\ arg_index' = IF afit < a THEN NextArgIndex(arg_index + afit)
                          ELSE arg_index + a
          /\ \A i \in 0 .. (BRANCH_RECORDS_SIZE - 1) :
               IF i >= record_index /\ i < record_index + bfit
                 THEN /\ branch_records'[i].lhs_label = call'.l1
                      /\ branch_records'[i].rhs_label = call'.l2
                      /\ branch_records'[i].lhs_v = call'.x1
                      /\ branch_records'[i].rhs_v = call'.x2
                 ELSE branch_records'[i] = branch_records[i]
          /\ \A i \in 0 .. (FUNC_ARGS_SIZE - 1) :
               IF i >= arg_index /\ i < arg_index + afit
                 THEN /\ func_arg_records'[i].label # 0
                      /\ func_arg_records'[i].label \in
                           {call'.l1, call'.l2, call'.x2}
                      /\ func_arg_records'[i].inst_id = call'.opcode
                 ELSE func_arg_records'[i] = func_arg_records[i]]_vars

\* The argument log is full of stored records, and an append to the full
\* branch log has ended the process.
LogCapacityWitness ==
  /\ gr_mode_perf = 0 /\ dead /\ call.op \in {"branch", "branch_float"}
  /\ record_index = BRANCH_RECORDS_SIZE + 1
  /\ branch_records[BRANCH_RECORDS_SIZE - 1].lhs_label # 0
  /\ arg_index = FUNC_ARGS_SIZE
  /\ func_arg_records[FUNC_ARGS_SIZE - 1].label # 0

\* C14. While performance mode is set (gr_mode_perf = 1), no operation (the
\* integer and float branch visitors, the SDIV/UREM/SREM and FDIV/FREM cases
\* of the unions, the memcpy hook) appends a branch record or an argument
\* record: both counters stay at 0, the value the start and every reset
\* give them, and both logs stay empty.
PerfModeSilent ==
  gr_mode_perf = 1 =>
    /\ record_index = 0 /\ arg_index = 0
    /\ \A i \in 0 .. (BRANCH_RECORDS_SIZE - 1) : branch_records[i] = ZeroBranch
    /\ \A i \in 0 .. (FUNC_ARGS_SIZE - 1) : func_arg_records[i] = ZeroArg

\* In performance mode, a remainder with a labeled divisor has returned a
\* label.
PerfModeWitness ==
  /\ gr_mode_perf = 1 /\ ~dead
  /\ call.op = "union" /\ call.opcode = SREM /\ call.l2 # 0 /\ ret # 0

\* The last call is a union of operands not both unlabeled that reaches the
\* switch over its opcode.
Combines(c) ==
  /\ c.op \in {"union", "union_float"}
  /\ ~BothZero(c.l1, c.l2) /\ ~NoDerivative(c.l1, c.l2)

\* C15, as the code has it. A float divide with divisor 0.0 returns a new
\* label of derivative (NaN, NaN) and the process keeps running, and a sum
\* with an operand of derivative NaN has derivative NaN; a signed integer
\* divide with divisor 0 ends the process (assert(false)).
DivisionByZero ==
  [][Combines(call') =>
       LET c == call'
           new == label_info'[ret']
       IN /\ (c.opcode = FDIV /\ c.x2 = 0) =>
               /\ IsNew /\ new.neg_dydx.nan /\ new.pos_dydx.nan
          /\ (c.opcode \in {ADD, FADD} /\ (NegOf(c.l1).nan \/ NegOf(c.l2).nan)) =>
               /\ IsNew /\ new.neg_dydx.nan
          /\ (c.opcode = SDIV /\ c.x2 = 0) =>
               /\ dead' /\ last_label' = last_label
               /\ label_info' = label_info]_vars

\* A float divide by 0.0 has returned label 2 of derivative (NaN, NaN), and
\* the sum of label 2 and an unlabeled operand has returned label 3 of
\* derivative (NaN, NaN).
DivisionByZeroWitness ==
  /\ ~dead /\ last_label = 3 /\ ret = 3
  /\ label_info[2].opcode = FDIV /\ label_info[2].neg_dydx.nan
  /\ call.op = "union_float" /\ call.opcode = FADD /\ call.l1 = 2 /\ call.l2 = 0
  /\ label_info[3].neg_dydx.nan /\ label_info[3].pos_dydx.nan

\* C15, as stated. A signed integer or float divide with divisor 0 and a
\* labeled operand returns a label of derivative (NaN, NaN) and the process
\* keeps running.
DivisionByZeroNotFatal ==
  [][(Combines(call') /\ call'.opcode \in {SDIV, FDIV} /\ call'.x2 = 0) =>
       /\ ~dead'
       /\ ret' # 0
       /\ label_info'[ret'].neg_dydx.nan /\ label_info'[ret'].pos_dydx.nan]_vars

\* The derivative pair an additive opcode computes from the operands of call
\* c equals the pair of label l, which is not 0.
Matches(l, c) ==
  /\ l # 0
  /\ Linear(c.opcode, NegOf(l), NegOf(c.l1), NegOf(c.l2))
  /\ Linear(c.opcode, PosOf(l), PosOf(c.l1), PosOf(c.l2))

\* No operand of call c carries any derivative.
Flat(c) ==
  /\ FIsZero(NegOf(c.l1)) /\ FIsZero(PosOf(c.l1))
  /\ FIsZero(NegOf(c.l2)) /\ FIsZero(PosOf(c.l2))

\* The last call has allocated nothing and written nothing to the table.
NoAllocation == last_label' = last_label /\ label_info' = label_info

\* C16, as the code has it. With label reuse enabled, a combine of operands
\* none of which carries a derivative returns the first operand's label if
\* it is not 0 and the second's otherwise, and a combine whose computed
\* derivative pair equals that of a nonzero operand label returns that label
\* (the first operand's before the second's), in both cases without
\* allocating; every other combine, and every combine with label reuse
\* disabled, allocates a new label.
ReuseRule ==
  [][(/\ call'.op \in {"union", "union_float"}
      /\ call'.opcode \in {ADD, SUB, FADD, FSUB}
      /\ ~BothZero(call'.l1, call'.l2)) =>
       LET c == call' IN
       IF ~flags.reuse_labels THEN IsNew
       ELSE IF Flat(c)
         THEN ret' = (IF c.l1 # 0 THEN c.l1 ELSE c.l2) /\ NoAllocation
       ELSE IF Matches(c.l1, c) THEN ret' = c.l1 /\ NoAllocation
       ELSE IF Matches(c.l2, c) THEN ret' = c.l2 /\ NoAllocation
       ELSE IsNew]_vars

\* With label reuse enabled, the sum of label 1 and label 2, which carries no
\* derivative, has returned label 1, and nothing was allocated.
ReuseWitness ==
  /\ flags.reuse_labels /\ last_label = 2
  /\ FIsZero(label_info[2].neg_dydx) /\ FIsZero(label_info[2].pos_dydx)
  /\ label_info[2].opcode = SUB
  /\ call.op = "union" /\ call.opcode = ADD /\ call.l1 = 1 /\ call.l2 = 2
  /\ ret = 1

\* C16, as stated. Under every configuration, a combine whose computed
\* derivative pair equals that of a nonzero operand label, or whose operands
\* carry no derivative, returns an operand's label and allocates nothing.
ReuseAlways ==
  [][(/\ call'.op \in {"union", "union_float"}
      /\ call'.opcode \in {ADD, SUB, FADD, FSUB}
      /\ ~BothZero(call'.l1, call'.l2)
      /\ (Flat(call') \/ Matches(call'.l1, call') \/ Matches(call'.l2, call'))) =>
       /\ ret' \in {call'.l1, call'.l2} /\ ret' # 0
       /\ NoAllocation]_vars

\* The last call is a union on an unsupported opcode, or the union for
\* unsupported operand types, of operands not both unlabeled.
OnUnsupported(c) ==
  /\ \/ c.op \in {"union", "union_float"} /\ c.opcode \in {UDIV, FCMP}
     \/ c.op = "union_unsupported_type"
  /\ ~BothZero(c.l1, c.l2)

\* Both derivatives of the entry e are the configured default.
IsDefault(e) ==
  IF flags.default_nan THEN e.neg_dydx.nan /\ e.pos_dydx.nan
  ELSE FIsZero(e.neg_dydx) /\ FIsZero(e.pos_dydx)

\* C17, as the code has it. A union on an unsupported opcode returns a label
\* whose derivative is the configured default (NaN or 0), except that with
\* label reuse enabled and operands without derivative it returns an
\* operand's label, of derivative 0, under either default; the union for
\* unsupported operand types allocates a label of derivative NaN under
\* either default.  None of them ends the process.
UnsupportedRule ==
  [][OnUnsupported(call') =>
       LET c == call'
           e == label_info'[ret']
       IN /\ ~dead' /\ ret' # 0
          /\ IF c.op = "union_unsupported_type"
               THEN IsNew /\ e.neg_dydx.nan /\ e.pos_dydx.nan
             ELSE IF flags.reuse_labels /\ Flat(c)
               THEN /\ ret' = (IF c.l1 # 0 THEN c.l1 ELSE c.l2)
                    /\ NoAllocation
             ELSE IsDefault(e)]_vars

\* With the default 0 selected, a union on the unsupported opcode UDIV of an
\* operand that carries a derivative has allocated a label of derivative 0.
UnsupportedWitness ==
  /\ ~flags.default_nan /\ ~dead
  /\ call.op = "union" /\ call.opcode = UDIV
  /\ call.l1 # 0 /\ ~FIsZero(label_info[call.l1].pos_dydx)
  /\ ret = last_label /\ label_info[ret].opcode = UDIV
  /\ FIsZero(label_info[ret].neg_dydx) /\ FIsZero(label_info[ret].pos_dydx)

\* C17, as stated. A union on an unsupported opcode or operand type with a
\* labeled operand returns a label whose derivative is NaN when the
\* configuration selects NaN and 0 when it selects zero.
UnsupportedFollowsDefault ==
  [][OnUnsupported(call') =>
       /\ ~dead' /\ ret' # 0
       /\ IsDefault(label_info'[ret'])]_vars

\* The optimizer is about to observe the trial it has run.
AtObserve == ~dead /\ main.phase = "optimize" /\ main.pc = "observe"

\* ceil(n / d) for integers n and d, d not 0.
CeilOf(n, d) ==
  IF d > 0 THEN 0 - ((0 - n) \div d) ELSE 0 - (n \div (0 - d))

\* C18. In every epoch whose opcode check passes, with x the source byte,
\* f(x) the concrete value of the sink (not 0) and p its pos derivative, the
\* source byte becomes (x - 2 * step) mod 256 with step = -ceil(p / f(x)),
\* whatever the neg derivative is.
UpdateRule ==
  [][(/\ AtObserve
      /\ label_info[bt.sinkId].opcode = bt.opcode
      /\ label_info[bt.sinkId].f_val # 0
      /\ ~label_info[bt.sinkId].pos_dydx.nan) =>
       LET x == Buf[bt.srcId]
           p == label_info[bt.sinkId].pos_dydx
           f == label_info[bt.sinkId].f_val
           step == 0 - CeilOf(p.n, p.d * f)
       IN Buf'[bt.srcId] = (x - lrate * step) % 256]_vars

\* An epoch has taken the source byte from 255 to 1: the update has wrapped
\* as an unsigned byte.
UpdateWrapWitness ==
  /\ main.phase = "optimize" /\ main.pc = "flush" /\ main.epoch > 0
  /\ call.op = "union" /\ call.x1 = 255 + 10
  /\ Buf[bt.srcId] = 1

\* An epoch is observed whose sink has different neg and pos derivatives:
\* the rule reads the pos derivative.
UpdateOneSidedWitness ==
  /\ AtObserve
  /\ label_info[bt.sinkId].opcode = bt.opcode
  /\ ~Same(label_info[bt.sinkId].neg_dydx, label_info[bt.sinkId].pos_dydx)

EntersRun ==
  /\ ~dead /\ main.phase = "optimize"
  /\ main.pc = "run" /\ target.pc = "entry"

\* C20. When a trial of the optimizer enters the target, the label table
\* holds exactly one label, label 1, of derivative (1.0, 1.0) and without
\* parents, every other entry being zero; exactly one shadow slot is not 0,
\* that of the target's source byte, which holds label 1; and both logs
\* are empty, in every trial of every target.
TrialStart ==
  EntersRun =>
    /\ last_label = 1
    /\ FEq(label_info[1].neg_dydx, F(1)) /\ FEq(label_info[1].pos_dydx, F(1))
    /\ label_info[1].l1 = 0 /\ label_info[1].l2 = 0
    /\ \A l \in Labels \ {1} : label_info[l] = ZeroInfo
    /\ \A a \in Addrs : shadow[a] = IF a = bt.srcId THEN 1 ELSE 0
    /\ record_index = 0 /\ arg_index = 0
    /\ \A i \in 0 .. (BRANCH_RECORDS_SIZE - 1) : branch_records[i] = ZeroBranch
    /\ \A i \in 0 .. (FUNC_ARGS_SIZE - 1) : func_arg_records[i] = ZeroArg

\* A trial after the first enters the target, with logging enabled: the
\* trials before it have allocated labels and logged a branch.
TrialStartWitness ==
  /\ EntersRun /\ main.epoch > 0 /\ gr_mode_perf = 0
  /\ MetadataPerIter[0].num_dfsan_labels > 1

\* The first trial of the optimizer: it runs on the buffer and the byte
\* offset of a trial of the collection loop, after that loop's trials.
FirstOptimizerTrial ==
  main.phase = "optimize" /\ main.i = 0 /\ main.epoch = 0

\* The epoch before the current one left the source byte as it was: its
\* sink had a step -ceil(p / f(x)) of 0.
RepeatedTrial ==
  /\ main.phase = "optimize" /\ main.epoch > 0
  /\ LET prev == MetadataPerIter[0].local_dfsan_label_info[bt.sinkId]
     IN /\ prev.f_val # 0 /\ ~prev.pos_dydx.nan
        /\ CeilOf(prev.pos_dydx.n, prev.pos_dydx.d * prev.f_val) = 0

\* The two logs a trial of the target leaves, as a function of the buffer
\* and of the offset the label is injected at: with the label on byte 0,
\* x, one branch record of the comparison of x, under label 1 of derivative
\* (1.0, 1.0), with the threshold, and no argument record; nothing with the
\* label on another byte, which the target does not read, and nothing in
\* performance mode.
TrialLogs(x, offset) ==
  /\ arg_index = 0
  /\ \A i \in 0 .. (FUNC_ARGS_SIZE - 1) : func_arg_records[i] = ZeroArg
  /\ record_index = IF gr_mode_perf = 0 /\ offset = 0 THEN 1 ELSE 0
  /\ branch_records[0] =
       IF gr_mode_perf = 0 /\ offset = 0
         THEN [lhs_label |-> 1, rhs_label |-> 0, lhs_v |-> x,
               rhs_v |-> target.Threshold, lhs_ndx |-> F(1), lhs_pdx |-> F(1),
               rhs_ndx |-> F(0), rhs_pdx |-> F(0),
               cond |-> (x <= target.Threshold)]
         ELSE ZeroBranch

SweepPairs ==
  [k \in 1 .. (NumIterations * (kNumLabels - 1)) |->
     [Iter |-> (k - 1) \div (kNumLabels - 1),
      l |-> ((k - 1) % (kNumLabels - 1)) + 1]]

\* The label of the pair was allocated in its trial and has opcode ADD.
IsAddPair(p) ==
  /\ p.l <= MetadataPerIter[p.Iter].num_dfsan_labels
  /\ MetadataPerIter[p.Iter].local_dfsan_label_info[p.l].opcode = ADD

\* One BugTarget for every such pair, in the order of the pairs.
AddTargets ==
  LET sel == SelectSeq(SweepPairs, IsAddPair) IN
  [k \in 1 .. Len(sel) |-> [srcId |-> sel[k].Iter, sinkId |-> sel[k].l,
                            opcode |-> ADD, loss |-> "byte_overflow_loss"]]

ConcurrentAllocation ==
  (main.phase = "threads" /\ main.fetches <= kNumLabels - 1) =>
    /\ \A l \in Labels : main.obtained[l] <= 1
    /\ last_label = main.fetches

\* Two threads are in the middle of an allocation with different labels.
ConcurrentAllocationWitness ==
  /\ main.phase = "threads"
  /\ target[1].pc = "store_label" /\ target[2].pc = "store_label"
  /\ target[1].label # target[2].label
  /\ last_label = 3

\* C23 as stated: no label is ever handed to two calls between two resets,
\* and the label count is the number of identifiers taken.
AllocationAlwaysUnique ==
  main.phase = "threads" =>
    /\ \A l \in Labels : main.obtained[l] <= 1
    /\ last_label = main.fetches

\* C24. In every interleaving of the appends of several threads, no slot of
\* the branch log is stored twice between two resets and its counter is the
\* number of appends begun; the same holds of the argument log as long as
\* no more than FUNC_ARGS_SIZE appends to it have begun.
ConcurrentAppends ==
  main.phase = "threads" =>
    /\ \A i \in 0 .. (BRANCH_RECORDS_SIZE - 1) : main.branch_stores[i] <= 1
    /\ record_index = main.branch_appends
    /\ main.arg_appends <= FUNC_ARGS_SIZE =>
         /\ \A i \in 0 .. (FUNC_ARGS_SIZE - 1) : main.arg_stores[i] <= 1
         /\ arg_index = main.arg_appends

\* One thread is about to store the branch record at the index it took
\* while another has taken the next index.
ConcurrentAppendsWitness ==
  /\ main.phase = "threads"
  /\ \E t \in Threads, u \in Threads :
       /\ target[t].pc = "store_branch" /\ target[u].pc = "check_branch"
       /\ target[t].index # target[u].index

\* C24 as stated: no slot of either log is ever stored twice between two
\* resets, and each counter is the number of appends to its log.
AppendsAlwaysExclusive ==
  main.phase = "threads" =>
    /\ \A i \in 0 .. (BRANCH_RECORDS_SIZE - 1) : main.branch_stores[i] <= 1
    /\ record_index = main.branch_appends
    /\ \A i \in 0 .. (FUNC_ARGS_SIZE - 1) : main.arg_stores[i] <= 1
    /\ arg_index = main.arg_appends

\* C26. In every interleaving of the allocating calls of several threads,
\* as long as the label space is not exhausted, label 0 is handed to no
\* call and its LabelInfo stays zero.
LabelZeroReserved ==
  (main.phase = "threads" /\ main.fetches <= kNumLabels - 1) =>
    /\ main.obtained[0] = 0
    /\ label_info[0] = ZeroInfo

\* A thread has taken the last identifier and has not ended the process
\* yet, while another thread is in the middle of an allocation.
LabelZeroWitness ==
  /\ main.phase = "threads" /\ ~dead
  /\ \E t \in Threads, u \in Threads :
       target[t].pc = "die" /\ target[u].pc = "check_label"

\* C26 as stated: label 0 is never handed to a call and its LabelInfo is
\* never written, the moment of exhaustion included.
LabelZeroAlwaysReserved ==
  main.phase = "threads" =>
    /\ main.obtained[0] = 0
    /\ label_info[0] = ZeroInfo

\* The difference of the output of sample smp of one side from the
\* unperturbed output, over the step of the sample.
SampleQuotient(c, dx1, dx2, sign, smp) ==
  LET step == IF c.opcode \in {UREM, SREM} THEN smp
              ELSE SampleStep(c.opcode, smp)
      y == IF c.opcode \in {UREM, SREM} THEN IntRem(c.x1, c.x2)
           ELSE BitOp(c.opcode, c.x1, c.x2)
      s == IF c.opcode \in {UREM, SREM}
             THEN IntRem(c.x1 + sign * ToInt(FMulI(step, dx1)),
                         c.x2 + sign * ToInt(FMulI(step, dx2)))
             ELSE BitSample(c.opcode, c.x1, c.x2, dx1, dx2, sign, step)
  IN [nan |-> FALSE, n |-> sign * (s - y), d |-> step]

\* The quotient q is at least 0.00001 in magnitude.
Significant(q) ==
  LET m == IF q.n >= 0 THEN q.n ELSE 0 - q.n IN
  \/ m > q.d \div 100000
  \/ m = q.d \div 100000 /\ q.d % 100000 = 0

\* The smallest element of a nonempty set of sample numbers.
FirstOf(K) == CHOOSE k \in K : \A j \in K : k <= j

\* The derivative of one side as the code has it: the quotient of the first
\* sample whose quotient is at least 0.00001 in magnitude, and the quotient
\* of the last sample (0 when its output does not differ) when there is no
\* such sample.
SampledDerivative(c, dx1, dx2, sign) ==
  LET K == {k \in 1 .. flags.samples :
              Significant(SampleQuotient(c, dx1, dx2, sign, k))}
  IN SampleQuotient(c, dx1, dx2, sign,
                    IF K = {} THEN flags.samples ELSE FirstOf(K))

\* The derivative of one side as stated: the quotient of the first sample
\* whose output differs, 0 when there is none.
FirstDifference(c, dx1, dx2, sign) ==
  LET K == {k \in 1 .. flags.samples :
              SampleQuotient(c, dx1, dx2, sign, k).n # 0}
  IN IF K = {} THEN F(0) ELSE SampleQuotient(c, dx1, dx2, sign, FirstOf(K))

\* A union of a finite-difference opcode has allocated a label.
Sampled ==
  /\ call'.op = "union" /\ IsNew
  /\ call'.opcode \in {UREM, SREM, SHL, LSHR, ASHR, AND, OR, XOR}

DumpReadsAppended ==
  call.op = "fini" =>
    /\ call.x1 \in {0, record_index}
    /\ \A i \in 0 .. (BRANCH_RECORDS_SIZE - 1) :
         (i < record_index) <=>
           (branch_records[i].lhs_label # 0 \/ branch_records[i].rhs_label # 0)
    /\ ~dead => call.x1 <= BRANCH_RECORDS_SIZE
    /\ call.x1 <= BRANCH_RECORDS_SIZE + 1

\* The die callback has dumped the branch log after an append found it
\* full.
DumpReadsAppendedWitness ==
  /\ call.op = "fini" /\ dead /\ gr_mode_perf = 0
  /\ call.x1 = record_index /\ record_index = BRANCH_RECORDS_SIZE + 1
  /\ branch_records[BRANCH_RECORDS_SIZE - 1].lhs_label # 0

\* C27 as stated: every dump of the branch log, the one run by the die
\* callback after a capacity overflow included, reads only slots of the
\* buffer.
DumpIndexInBounds ==
  call.op = "fini" => call.x1 <= BRANCH_RECORDS_SIZE

\* C28. Every call of PopulateMetadata made with fewer than kNumLabels - 2
\* labels allocated terminates, and when a call has returned it has copied
\* the entries 1 .. cnt+1 of the label table and nothing else.
PopulateEnds ==
  /\ [](main.pc = "done" =>
          /\ MetadataPerIter[0] = PopulateMetadata
          /\ main.l = main.cnt + 2)
  /\ (main.pc = "loop" /\ main.cnt < kNumLabels - 2) ~> (main.pc = "done")

\* A call made with one label less than the largest count has returned.
PopulateEndsWitness ==
  /\ main.phase = "populate" /\ main.pc = "done"
  /\ main.cnt = kNumLabels - 3
  /\ MetadataPerIter[0].local_dfsan_label_info[1].loc # ""

\* C28 as stated: every call of PopulateMetadata terminates, whatever
\* number of labels is allocated.
PopulateAlwaysEnds ==
  (main.pc = "loop") ~> (main.pc = "done")

\* What newton_optimizer reads at the end of a trial: the sink's entry of
\* the snapshot.
SinkInfo == PopulateMetadata.local_dfsan_label_info[bt.sinkId]

\* An epoch of newton_optimizer is at its opcode check and passes it.
PassesOpcodeCheck ==
  /\ main.phase = "optimize" /\ main.pc = "observe" /\ ~dead
  /\ ~FailedOpcodeCheck(SinkInfo, bt.opcode)

\* C29. In every epoch that passes the opcode check, the divisor f(x) of an
\* ADD sink is the sum of the sink's two operands as the trial computed
\* it: it is 0 exactly when the operands sum to 0.
DivisorIsSum ==
  PassesOpcodeCheck =>
    /\ SinkInfo.opcode = ADD
    /\ SinkInfo.f_val = Buf[0] + Buf[1]
    /\ (SinkInfo.f_val = 0) <=> (Buf[0] = 0 /\ Buf[1] = 0)

\* An epoch passes the opcode check with a sink whose operands sum to 0.
DivisorIsSumWitness ==
  PassesOpcodeCheck /\ SinkInfo.f_val = 0 /\ SinkInfo.pos_dydx.n # 0

\* C29 as stated: in every epoch that passes the opcode check the divisor
\* f(x) is not 0.
DivisorNonzero ==
  PassesOpcodeCheck => SinkInfo.f_val # 0

=============================================================================
